---- MODULE Spec2Model ----
(***************************************************************************)
(* Verification model of the microplastics viewer (xchar08/devtect).       *)
(*                                                                         *)
(* Part 1: the mitigation rule engine, in each of its source variants      *)
(*   applyMitigationStrategy  AIYearHeatmapMitigation.jsx (whole years)    *)
(*   applyMitigation          MitigationSim.jsx (catalog driven, no time)  *)
(*   applyMitigationMonthly   src/unnamed/part_003 (older heatmap, months) *)
(*   applyMitigationSwitch    src/unnamed/part_002 (older simulator)       *)
(* Part 2: the CSV loaders (the Papa.parse "complete" callbacks).          *)
(* Part 3: the grid sampler and the prediction pass of the heatmap.        *)
(* Part 4: the model lifecycle (load, train, save) of the three views      *)
(*   that keep a TensorFlow.js model, over a shared model store.           *)
(* Part 5: the playback timer of the time-lapse view.                      *)
(*                                                                         *)
(* Numbers.  JavaScript numbers are modelled exactly as rationals:         *)
(*   - a concentration is an integer count of 1/20^MaxExp pieces, so that  *)
(*     value * (1 - rate)^n is exact for every n <= MaxExp (all catalog    *)
(*     rates are multiples of 1/20);                                       *)
(*   - a rate is an integer count of twentieths (0.2 is 4, 0.35 is 7);     *)
(*   - an elapsed time in years is an integer count of 1/24 year, so that  *)
(*     Math.floor(years) and Math.round(years * 12) are both real          *)
(*     conversions on it.                                                  *)
(***************************************************************************)
EXTENDS Integers, Sequences, FiniteSets, TLC

VARIABLES
    \* ---- mitigation rule engine: one call of one variant ----
    value,        \* raw concentration handed to the rule (scaled by Unit)
    tacticVal,    \* tactic id handed to the rule
    lat,          \* latitude of the point, degrees
    lon,          \* longitude of the point, degrees
    timeInc,      \* elapsed time, in 1/24 year
    call,         \* which entry point has run ("none" before the call)
    result,       \* the adjusted value it returned (scaled by Unit)
    \* ---- CSV loaders ----
    csvRows,      \* results.data: the parsed rows, fields still strings
    loader,       \* which component's complete callback has run
    cleaned,      \* the rows that callback kept (rawData / cleaned)
    \* ---- the model-backed views (heatmap, older heatmap, AIPredictions) ----
    comp,         \* per mounted instance: the component's React state and
                  \* the position of its asynchronous load/train chain
    store,        \* the browser's model store (localstorage://...), by key
    mounts,       \* how many instances have been mounted so far
    page,         \* the instance now on screen (0: another route)
    inFlight,     \* generatePredictions calls suspended at their await
    \* ---- the time-lapse view ----
    tlMounted,    \* TimeLapseMonthly is on screen
    intervalRef,  \* intervalRef.current (0 stands for null)
    timers,       \* ids of the interval timers that are active in the window
    timerIds,     \* how many interval ids setInterval has handed out
    monthIndex,   \* the monthIndex state
    \* ---- the 3D node graph ----
    graphData,         \* the graphData state: nodes and links on display
    groupedByCountry,  \* the groupedByCountry state
    expandedCountry,   \* the expandedCountry state ("null" stands for null)
    rawDataRef,        \* rawDataRef.current: the graph as loaded, or null
    pinDeps            \* the dependencies the pin effect last ran with

mitVars == <<value, tacticVal, lat, lon, timeInc, call, result>>
loadVars == <<csvRows, loader, cleaned>>
compVars == <<comp, store, mounts, page, inFlight>>
timerVars == <<tlMounted, intervalRef, timers, timerIds, monthIndex>>
graphVars == <<graphData, groupedByCountry, expandedCountry, rawDataRef,
               pinDeps>>
vars == <<value, tacticVal, lat, lon, timeInc, call, result, csvRows, loader,
          cleaned, comp, store, mounts, page, inFlight, tlMounted,
          intervalRef, timers, timerIds, monthIndex, graphData,
          groupedByCountry, expandedCountry, rawDataRef, pinDeps>>

-----------------------------------------------------------------------------
\* Bounds of the model.

\* Largest exponent n of (1 - rate)^n that is evaluated: whole elapsed years
\* for the per-year rule, elapsed months for the monthly rule.
MaxExp == 3

\* Largest number of rows in the parsed CSV.
MaxRows == 2

-----------------------------------------------------------------------------
\* Arithmetic helpers.

RECURSIVE Pow(_, _)
Pow(b, n) == IF n = 0 THEN 1 ELSE b * Pow(b, n - 1)

\* One piece, in the fixed-point unit of concentrations.
Unit == Pow(20, MaxExp)

\* Math.abs
Abs(x) == IF x < 0 THEN -x ELSE x

\* Math.max(a, b)
MathMax(a, b) == IF a >= b THEN a ELSE b

\* Math.floor(years), years in 1/24 year (never negative here).
MathFloor(years) == years \div 24

\* Math.round(timeInc * 12), timeInc in 1/24 year: halves round up.
RoundMonths(t) == (t + 1) \div 2

\* v * f where f = keep/20; exact while v is a multiple of 20.
Times(v, keep) == (v * keep) \div 20

\* v * Math.pow(keep/20, n); exact for n <= MaxExp on a multiple of Unit.
RECURSIVE TimesPow(_, _, _)
TimesPow(v, keep, n) == IF n = 0 THEN v ELSE TimesPow(Times(v, keep), keep, n - 1)

-----------------------------------------------------------------------------
\* Input domains of the rule engine.

Lats == {-30, -20, -15, -10, 0, 10, 11, 15, 20, 21, 30, 45, 46}
Lons == {-15, 0, 10, 15, 20, 30, 45, 46}
Coord == Lats \X Lons

\* Raw values, in pieces: a negative network output, zero, and positives.
RawValues == {-2 * Unit, 0, 1 * Unit, 5 * Unit}

\* Elapsed times in 1/24 year handed to a rule: every half month up to
\* MaxExp months and every half year up to MaxExp years.
TimeIncs == {t \in 0..(24 * MaxExp) : t <= 2 * MaxExp \/ t % 12 = 0}

\* AIYearHeatmapMitigation.jsx: const timeIncrements (0.5, 1, 2, 5, 10 years)
timeIncrements == {12, 24, 48, 120, 240}

\* src/unnamed/part_003: const timeIncrements (1, 2, 3, 6, 9, 12 months)
timeIncrementsMonthly == {2, 4, 6, 12, 18, 24}

TacticIds == {"none", "coastal", "openocean", "globalban", "river",
              "biodegradable", "industrial", "awareness", "wastemanagement",
              "legislation", "oceanrestoration", "erosioncontrol"}

-----------------------------------------------------------------------------
\* The tactic catalogs.  rate is in twentieths; applies is the predicate,
\* tabulated over Coord.

\* C7 mutant: the simulator's copy drifts (wastemanagement bound made strict).
tacticsSim_StrictWaste == <<
    [value |-> "none", type |-> "none", rate |-> 0,
     applies |-> [p \in Coord |-> TRUE]],
    [value |-> "coastal", type |-> "perYear", rate |-> 4,
     applies |-> [p \in Coord |-> Abs(p[1]) < 15 \/ Abs(p[2]) < 15]],
    [value |-> "openocean", type |-> "perYear", rate |-> 6,
     applies |-> [p \in Coord |-> Abs(p[1]) >= 15 /\ Abs(p[2]) >= 15]],
    [value |-> "globalban", type |-> "oneTime", rate |-> 10,
     applies |-> [p \in Coord |-> TRUE]],
    [value |-> "river", type |-> "perYear", rate |-> 8,
     applies |-> [p \in Coord |-> p[1] >= -10 /\ p[1] <= 10]],
    [value |-> "biodegradable", type |-> "oneTime", rate |-> 5,
     applies |-> [p \in Coord |-> TRUE]],
    [value |-> "industrial", type |-> "perYear", rate |-> 7,
     applies |-> [p \in Coord |-> Abs(p[1]) < 30 /\ Abs(p[2]) < 30]],
    [value |-> "awareness", type |-> "oneTime", rate |-> 3,
     applies |-> [p \in Coord |-> TRUE]],
    [value |-> "wastemanagement", type |-> "perYear", rate |-> 8,
     applies |-> [p \in Coord |-> Abs(p[1]) < 45 /\ Abs(p[2]) < 45]],
    [value |-> "legislation", type |-> "oneTime", rate |-> 6,
     applies |-> [p \in Coord |-> TRUE]],
    [value |-> "oceanrestoration", type |-> "oneTime", rate |-> 4,
     applies |-> [p \in Coord |-> TRUE]],
    [value |-> "erosioncontrol", type |-> "perYear", rate |-> 5,
     applies |-> [p \in Coord |-> p[1] >= -20 /\ p[1] <= 20]] >>

\* AIYearHeatmapMitigation.jsx: const tactics
tactics == <<
    [value |-> "none", type |-> "none", rate |-> 0,
     applies |-> [p \in Coord |-> TRUE]],
    [value |-> "coastal", type |-> "perYear", rate |-> 4,
     applies |-> [p \in Coord |-> Abs(p[1]) < 15 \/ Abs(p[2]) < 15]],
    [value |-> "openocean", type |-> "perYear", rate |-> 6,
     applies |-> [p \in Coord |-> Abs(p[1]) >= 15 /\ Abs(p[2]) >= 15]],
    [value |-> "globalban", type |-> "oneTime", rate |-> 10,
     applies |-> [p \in Coord |-> TRUE]],
    [value |-> "river", type |-> "perYear", rate |-> 8,
     applies |-> [p \in Coord |-> p[1] >= -10 /\ p[1] <= 10]],
    [value |-> "biodegradable", type |-> "oneTime", rate |-> 5,
     applies |-> [p \in Coord |-> TRUE]],
    [value |-> "industrial", type |-> "perYear", rate |-> 7,
     applies |-> [p \in Coord |-> Abs(p[1]) < 30 /\ Abs(p[2]) < 30]],
    [value |-> "awareness", type |-> "oneTime", rate |-> 3,
     applies |-> [p \in Coord |-> TRUE]],
    [value |-> "wastemanagement", type |-> "perYear", rate |-> 8,
     applies |-> [p \in Coord |-> Abs(p[1]) <= 45 /\ Abs(p[2]) <= 45]],
    [value |-> "legislation", type |-> "oneTime", rate |-> 6,
     applies |-> [p \in Coord |-> TRUE]],
    [value |-> "oceanrestoration", type |-> "oneTime", rate |-> 4,
     applies |-> [p \in Coord |-> TRUE]],
    [value |-> "erosioncontrol", type |-> "perYear", rate |-> 5,
     applies |-> [p \in Coord |-> p[1] >= -20 /\ p[1] <= 20]] >>

\* MitigationSim.jsx: const tactics (its own copy of the catalog)
tacticsSim == <<
    [value |-> "none", type |-> "none", rate |-> 0,
     applies |-> [p \in Coord |-> TRUE]],
    [value |-> "coastal", type |-> "perYear", rate |-> 4,
     applies |-> [p \in Coord |-> Abs(p[1]) < 15 \/ Abs(p[2]) < 15]],
    [value |-> "openocean", type |-> "perYear", rate |-> 6,
     applies |-> [p \in Coord |-> Abs(p[1]) >= 15 /\ Abs(p[2]) >= 15]],
    [value |-> "globalban", type |-> "oneTime", rate |-> 10,
     applies |-> [p \in Coord |-> TRUE]],
    [value |-> "river", type |-> "perYear", rate |-> 8,
     applies |-> [p \in Coord |-> p[1] >= -10 /\ p[1] <= 10]],
    [value |-> "biodegradable", type |-> "oneTime", rate |-> 5,
     applies |-> [p \in Coord |-> TRUE]],
    [value |-> "industrial", type |-> "perYear", rate |-> 7,
     applies |-> [p \in Coord |-> Abs(p[1]) < 30 /\ Abs(p[2]) < 30]],
    [value |-> "awareness", type |-> "oneTime", rate |-> 3,
     applies |-> [p \in Coord |-> TRUE]],
    [value |-> "wastemanagement", type |-> "perYear", rate |-> 8,
     applies |-> [p \in Coord |-> Abs(p[1]) <= 45 /\ Abs(p[2]) <= 45]],
    [value |-> "legislation", type |-> "oneTime", rate |-> 6,
     applies |-> [p \in Coord |-> TRUE]],
    [value |-> "oceanrestoration", type |-> "oneTime", rate |-> 4,
     applies |-> [p \in Coord |-> TRUE]],
    [value |-> "erosioncontrol", type |-> "perYear", rate |-> 5,
     applies |-> [p \in Coord |-> p[1] >= -20 /\ p[1] <= 20]] >>

\* tactics.find(t => t.value === tacticVal): whether an entry is found ...
HasTactic(catalog, id) == \E i \in 1..Len(catalog) : catalog[i].value = id

\* ... and the first such entry.
FindTactic(catalog, id) ==
    LET idx == {i \in 1..Len(catalog) : catalog[i].value = id}
        first == CHOOSE i \in idx : \A j \in idx : i <= j
    IN catalog[first]

-----------------------------------------------------------------------------
\* Strings and parseFloat.  A string is a sequence of one-character strings;
\* a missing column (undefined) is the one-element sequence Undefined, which
\* parseFloat reads as the text "undefined".

Undefined == <<"undefined">>

Digits == <<"0", "1", "2", "3", "4", "5", "6", "7", "8", "9">>

IsDigit(c) == \E i \in 1..10 : Digits[i] = c

DigitVal(c) == (CHOOSE i \in 1..10 : Digits[i] = c) - 1

\* A JavaScript number that may be NaN.
NaN == [nan |-> TRUE, n |-> 0]

Num(k) == [nan |-> FALSE, n |-> k]

\* isNaN(x)
isNaN(x) == x.nan

\* x === k, x !== k for a numeric literal k (NaN equals nothing).
StrictEq(x, k) == ~x.nan /\ x.n = k

\* a JavaScript truthiness test on a string-or-undefined field: !!s
Truthy(s) == s # Undefined /\ s # <<>>

\* s || dflt
OrElse(s, dflt) == IF Truthy(s) THEN s ELSE dflt

RECURSIVE SkipSpaces(_)
SkipSpaces(s) == IF s # <<>> /\ Head(s) = " " THEN SkipSpaces(Tail(s)) ELSE s

RECURSIVE ReadDigits(_, _)
ReadDigits(s, acc) ==
    IF s # <<>> /\ IsDigit(Head(s))
    THEN ReadDigits(Tail(s), acc * 10 + DigitVal(Head(s)))
    ELSE acc

\* parseFloat(str) on integer text: leading blanks are skipped, an optional
\* sign and the longest run of digits are read, whatever follows is ignored;
\* no digit at that place gives NaN.
ParseFloat(str) ==
    LET s == SkipSpaces(str)
        signed == s # <<>> /\ Head(s) \in {"-", "+"}
        body == IF signed THEN Tail(s) ELSE s
        mag == ReadDigits(body, 0)
    IN IF body = <<>> \/ ~IsDigit(Head(body)) THEN NaN
       ELSE Num(IF signed /\ Head(s) = "-" THEN -mag ELSE mag)

\* The decimal text of an integer: how a number reads back through parseFloat
\* (row["year"] = yearNum, later parseFloat(r["year"])), and how a coordinate
\* stands in a CSV cell.
RECURSIVE NatToStr(_)
NatToStr(k) ==
    IF k < 10 THEN <<Digits[k + 1]>>
    ELSE NatToStr(k \div 10) \o <<Digits[(k % 10) + 1]>>

NumToStr(k) == IF k < 0 THEN <<"-">> \o NatToStr(-k) ELSE NatToStr(k)

-----------------------------------------------------------------------------
\* The rule engine.

\* C1 mutant: the one-time rule multiplies by (1 + rate), a sign slip.
applyMitigationStrategy_OneTimeAdds(val, tac, la, lo, years) ==
    IF ~HasTactic(tactics, tac) THEN val
    ELSE LET selectedTactic == FindTactic(tactics, tac) IN
         IF ~selectedTactic.applies[<<la, lo>>] THEN val
         ELSE LET finalValue ==
                    IF selectedTactic.type = "perYear"
                    THEN TimesPow(val, 20 - selectedTactic.rate, MathFloor(years))
                    ELSE IF selectedTactic.type = "oneTime"
                    THEN Times(val, 20 + selectedTactic.rate)
                    ELSE val
              IN MathMax(finalValue, 0)

\* C5 mutant: the per-year rule multiplies by (1 + rate)^n, a sign slip.
applyMitigationStrategy_Grow(val, tac, la, lo, years) ==
    IF ~HasTactic(tactics, tac) THEN val
    ELSE LET selectedTactic == FindTactic(tactics, tac) IN
         IF ~selectedTactic.applies[<<la, lo>>] THEN val
         ELSE LET finalValue ==
                    IF selectedTactic.type = "perYear"
                    THEN TimesPow(val, 20 + selectedTactic.rate, MathFloor(years))
                    ELSE IF selectedTactic.type = "oneTime"
                    THEN Times(val, 20 - selectedTactic.rate)
                    ELSE val
              IN MathMax(finalValue, 0)

\* AIYearHeatmapMitigation.jsx: applyMitigationStrategy(value, tacticVal,
\* lat, lon, years); years in 1/24 year.
applyMitigationStrategy(val, tac, la, lo, years) ==
    IF ~HasTactic(tactics, tac) THEN val
    ELSE LET selectedTactic == FindTactic(tactics, tac) IN
         IF ~selectedTactic.applies[<<la, lo>>] THEN val
         ELSE LET fullYears == MathFloor(years)
                  finalValue ==
                    IF selectedTactic.type = "perYear"
                    THEN TimesPow(val, 20 - selectedTactic.rate, fullYears)
                    ELSE IF selectedTactic.type = "oneTime"
                    THEN Times(val, 20 - selectedTactic.rate)
                    ELSE val
              IN MathMax(finalValue, 0)

\* AIYearHeatmapMitigation.jsx, generatePredictions, for one grid point:
\* years = Math.floor(timeInc) is what the rule receives.
PredictPoint(val, tac, la, lo, tInc) ==
    LET years == 24 * MathFloor(tInc)
    IN applyMitigationStrategy(val, tac, la, lo, years)

\* C2 mutant: the simulator's rule forgets the geographic predicate.
applyMitigation_NoPredicate(val, tac, row) ==
    IF val <= 0 THEN 0
    ELSE IF ~HasTactic(tacticsSim, tac) THEN val
    ELSE LET tactic == FindTactic(tacticsSim, tac) IN
         IF tactic.type = "none" THEN val
         ELSE MathMax(Times(val, 20 - tactic.rate), 0)

\* MitigationSim.jsx: applyMitigation(value, tacticVal, row)
applyMitigation(val, tac, row) ==
    IF val <= 0 THEN 0
    ELSE LET la == ParseFloat(row.lat)
             lo == ParseFloat(row.lon)
         IN IF ~HasTactic(tacticsSim, tac) THEN val
            ELSE LET tactic == FindTactic(tacticsSim, tac) IN
                 IF tactic.type = "none" \/ ~tactic.applies[<<la.n, lo.n>>]
                 THEN val
                 ELSE MathMax(Times(val, 20 - tactic.rate), 0)

\* src/unnamed/part_003: applyMitigation(value, tacticVal, lat, lon, months)
applyMitigationMonthly(val, tac, la, lo, months) ==
    IF val <= 0 THEN 0
    ELSE LET reductionPercentage ==
               CASE tac = "coastal" ->
                      IF Abs(la) < 15 \/ Abs(lo) < 15 THEN 4 ELSE 0
                 [] tac = "openocean" ->
                      IF Abs(la) >= 15 /\ Abs(lo) >= 15 THEN 6 ELSE 0
                 [] tac = "globalban" -> 10
                 [] tac = "river" ->
                      IF la >= -10 /\ la <= 10 THEN 8 ELSE 0
                 [] OTHER -> 0
         IN IF reductionPercentage > 0 /\ months > 0
            THEN TimesPow(val, 20 - reductionPercentage, months)
            ELSE val

\* src/unnamed/part_003, generatePredictions, for one grid point:
\* months = Math.round(timeInc * 12) is what the rule receives.
PredictPointMonthly(val, tac, la, lo, tInc) ==
    LET months == RoundMonths(tInc)
    IN applyMitigationMonthly(val, tac, la, lo, months)

\* src/unnamed/part_002: applyMitigation(value, tacticVal, row)
applyMitigationSwitch(val, tac, row) ==
    IF val <= 0 THEN 0
    ELSE LET la == ParseFloat(OrElse(row.lat, <<>>))
             lo == ParseFloat(OrElse(row.lon, <<>>))
         IN CASE tac = "coastal" ->
                   IF Abs(la.n) < 15 \/ Abs(lo.n) < 15
                   THEN Times(val, 16) ELSE val
              [] tac = "openocean" ->
                   IF Abs(la.n) >= 15 /\ Abs(lo.n) >= 15
                   THEN Times(val, 14) ELSE val
              [] tac = "globalban" -> Times(val, 10)
              [] tac = "river" ->
                   IF la.n >= -10 /\ la.n <= 10
                   THEN Times(val, 12) ELSE val
              [] OTHER -> val

\* The CSV row a simulator reads the point's coordinates from.
RowAt(la, lo, val) ==
    [lat |-> NumToStr(la), lon |-> NumToStr(lo),
     pieces |-> NumToStr(val \div Unit), year |-> Undefined]

-----------------------------------------------------------------------------
\* The model-backed views.  An instance is one mounting of one of the three
\* components that keep a TensorFlow.js model; its record holds the React
\* state of that mounting and the position (pc) of the asynchronous chain its
\* mount effect started.  Bounding-box coordinates are in half degrees, grid
\* points in whole degrees, years and elapsed times in 1/24 year.

\* Largest number of instances mounted in a run.
MaxMounts == 2

\* Largest number of generatePredictions calls suspended at once.
MaxInFlight == 2

\* Largest number of interval timers setInterval hands out.
MaxTimers == 5

Inst == 1..MaxMounts

Components == {"AIYearHeatmapMitigation", "AIYearHeatmapMitigationOld",
               "AIPredictions"}

\* AIYearHeatmapMitigation.jsx: const MODEL_URL; the older heatmap and
\* AIPredictions.jsx both use the unversioned key.
MODEL_URL == "localstorage://microplastics-model-v2"

PlainUrl == "localstorage://microplastics-model"

ModelUrl(kind) ==
    IF kind = "AIYearHeatmapMitigation" THEN MODEL_URL ELSE PlainUrl

Urls == {MODEL_URL, PlainUrl}

\* inputShape of the network a component builds, and the width of the
\* tensors it feeds to predict.
InputShape(kind) == IF kind = "AIPredictions" THEN 2 ELSE 3

\* null, for each nullable piece of state
NoModel == [features |-> 0, trained |-> FALSE, by |-> 0, weights |-> 0]

NoBox == [minLat |-> 0, maxLat |-> -1, minLon |-> 0, maxLon |-> -1,
          minYear |-> 0, maxYear |-> -1]

NoYear == 0

NoDeps == <<>>

NoOutput == <<>>

\* The state of a component before it is mounted (the useState defaults).
Unmounted ==
    [kind |-> "none", pc |-> "unmounted", model |-> NoModel,
     newModel |-> NoModel, isTraining |-> FALSE, boundingBox |-> NoBox,
     selectedYear |-> NoYear, timeIncrement |-> 0, tactic |-> "none",
     deps |-> NoDeps, heatmapData |-> <<>>, maxVal |-> 0,
     isPredicting |-> FALSE, predictionProgress |-> 0,
     predictionError |-> FALSE,
     predictionOutput |-> NoOutput]

\* No view has been opened: the values these variables keep in the
\* specifications of the other parts.
CompIdle ==
    /\ comp = [i \in Inst |-> Unmounted]
    /\ store = [u \in Urls |-> NoModel]
    /\ mounts = 0
    /\ page = 0
    /\ inFlight = <<>>

TimerIdle ==
    /\ tlMounted = FALSE
    /\ intervalRef = 0
    /\ timers = {}
    /\ timerIds = 0
    /\ monthIndex = 0

\* The node graph has not been opened.
NoGraph == [nodes |-> <<>>, links |-> <<>>, loaded |-> FALSE]

GraphIdle ==
    /\ graphData = [nodes |-> <<>>, links |-> <<>>]
    /\ groupedByCountry = FALSE
    /\ expandedCountry = "null"
    /\ rawDataRef = NoGraph
    /\ pinDeps = <<>>

MitIdle ==
    /\ value = 0
    /\ tacticVal = "none"
    /\ lat = 0
    /\ lon = 0
    /\ timeInc = 0
    /\ call = "none"
    /\ result = 0

-----------------------------------------------------------------------------
\* Specification of the rule engine: any input, then one call of one variant.

InitMitigation ==
    /\ value \in RawValues
    /\ tacticVal \in TacticIds \cup {"unknown"}
    /\ lat \in Lats
    /\ lon \in Lons
    /\ timeInc \in TimeIncs
    /\ call = "none"
    /\ result = 0
    /\ csvRows = <<>>
    /\ loader = "none"
    /\ cleaned = <<>>
    /\ CompIdle
    /\ TimerIdle
    /\ GraphIdle

\* applyMitigationStrategy called with a fractional elapsed time.
CallApplyMitigationStrategy ==
    /\ call = "none"
    /\ MathFloor(timeInc) <= MaxExp
    /\ call' = "applyMitigationStrategy"
    /\ result' = applyMitigationStrategy(value, tacticVal, lat, lon, timeInc)
    /\ UNCHANGED <<value, tacticVal, lat, lon, timeInc>>
    /\ UNCHANGED loadVars
    /\ UNCHANGED <<compVars, timerVars, graphVars>>

\* The heatmap's prediction pass over one point, at the selected time
\* increment (0 until one is selected).
CallPredictPoint ==
    /\ call = "none"
    /\ timeInc \in {0} \cup timeIncrements
    /\ MathFloor(timeInc) <= MaxExp
    /\ call' = "generatePredictions"
    /\ result' = PredictPoint(value, tacticVal, lat, lon, timeInc)
    /\ UNCHANGED <<value, tacticVal, lat, lon, timeInc>>
    /\ UNCHANGED loadVars
    /\ UNCHANGED <<compVars, timerVars, graphVars>>

\* The simulator's rule on one data row.
CallApplyMitigation ==
    /\ call = "none"
    /\ call' = "applyMitigation"
    /\ result' = applyMitigation(value, tacticVal, RowAt(lat, lon, value))
    /\ UNCHANGED <<value, tacticVal, lat, lon, timeInc>>
    /\ UNCHANGED loadVars
    /\ UNCHANGED <<compVars, timerVars, graphVars>>

\* The older heatmap's prediction pass over one point, at the selected time
\* increment (0 until one is selected).
CallPredictPointMonthly ==
    /\ call = "none"
    /\ timeInc \in {0} \cup timeIncrementsMonthly
    /\ RoundMonths(timeInc) <= MaxExp
    /\ call' = "generatePredictionsMonthly"
    /\ result' = PredictPointMonthly(value, tacticVal, lat, lon, timeInc)
    /\ UNCHANGED <<value, tacticVal, lat, lon, timeInc>>
    /\ UNCHANGED loadVars
    /\ UNCHANGED <<compVars, timerVars, graphVars>>

\* The older simulator's rule on one data row.
CallApplyMitigationSwitch ==
    /\ call = "none"
    /\ call' = "applyMitigationSwitch"
    /\ result' = applyMitigationSwitch(value, tacticVal, RowAt(lat, lon, value))
    /\ UNCHANGED <<value, tacticVal, lat, lon, timeInc>>
    /\ UNCHANGED loadVars
    /\ UNCHANGED <<compVars, timerVars, graphVars>>

NextMitigation ==
    \/ CallApplyMitigationStrategy
    \/ CallPredictPoint
    \/ CallApplyMitigation
    \/ CallPredictPointMonthly
    \/ CallApplyMitigationSwitch

SpecMitigation == InitMitigation /\ [][NextMitigation]_vars

-----------------------------------------------------------------------------
\* The CSV loaders: the "complete" callbacks of Papa.parse.  A row is a record
\* of the cells read by the loaders; the concentration cell (pieces) stands
\* for "Level 3p (pieces/km2)", and for the month column in the time lapse.

defaultYear == 2025

Sentinel == <<"-", "9", "9", "9", "9">>

\* not a sentinel: x !== -9999 in the code's sense
\* (lat === -9999 || ... is the rejection test)
IsSentinel(x) == StrictEq(x, -9999)

\* C10 mutant: the default year is not written back to the kept row.
parseCsvComplete_NoWriteBack(rows) ==
    LET Keep(row) ==
          LET la == ParseFloat(OrElse(row.lat, <<>>))
              lo == ParseFloat(OrElse(row.lon, <<>>))
              pieces == ParseFloat(OrElse(row.pieces, <<>>))
              yearStr == row.year
              yearNum == IF ~Truthy(yearStr) THEN Num(defaultYear)
                         ELSE ParseFloat(yearStr)
          IN /\ ~isNaN(yearNum)
             /\ ~(isNaN(la) \/ isNaN(lo) \/ isNaN(pieces)
                  \/ IsSentinel(la) \/ IsSentinel(lo) \/ IsSentinel(pieces))
    IN SelectSeq(rows, Keep)

\* AIYearHeatmapMitigation.jsx, parseCsv: results.data.filter(...), with the
\* default year written into each kept row that had none.
parseCsvComplete(rows) ==
    LET Keep(row) ==
          LET la == ParseFloat(OrElse(row.lat, <<>>))
              lo == ParseFloat(OrElse(row.lon, <<>>))
              pieces == ParseFloat(OrElse(row.pieces, <<>>))
              yearStr == row.year
              yearNum == IF ~Truthy(yearStr) THEN Num(defaultYear)
                         ELSE ParseFloat(yearStr)
          IN /\ ~isNaN(yearNum)
             /\ ~(isNaN(la) \/ isNaN(lo) \/ isNaN(pieces) \/ isNaN(yearNum)
                  \/ IsSentinel(la) \/ IsSentinel(lo) \/ IsSentinel(pieces))
        kept == SelectSeq(rows, Keep)
    IN [i \in 1..Len(kept) |->
          IF ~Truthy(kept[i].year)
          THEN [kept[i] EXCEPT !.year = NumToStr(defaultYear)]
          ELSE kept[i]]

\* MitigationSim.jsx: complete
mitigationSimComplete(rows) ==
    LET Keep(row) ==
          LET la == ParseFloat(row.lat)
              lo == ParseFloat(row.lon)
              pieces == ParseFloat(row.pieces)
          IN ~isNaN(la) /\ ~isNaN(lo) /\ ~isNaN(pieces)
             /\ ~IsSentinel(la) /\ ~IsSentinel(lo) /\ ~IsSentinel(pieces)
    IN SelectSeq(rows, Keep)

\* Level3Map.jsx: complete
level3MapComplete(rows) ==
    LET Keep(row) ==
          LET la == ParseFloat(row.lat)
              lo == ParseFloat(row.lon)
              pieces == ParseFloat(row.pieces)
          IN ~isNaN(la) /\ ~isNaN(lo) /\ ~isNaN(pieces)
             /\ ~IsSentinel(la) /\ ~IsSentinel(lo) /\ ~IsSentinel(pieces)
    IN SelectSeq(rows, Keep)

\* TimeLapseMonthly.jsx: complete (only the coordinates are tested)
timeLapseComplete(rows) ==
    LET Keep(row) ==
          LET la == ParseFloat(OrElse(row.lat, <<>>))
              lo == ParseFloat(OrElse(row.lon, <<>>))
          IN /\ ~(isNaN(la) \/ isNaN(lo))
             /\ ~(IsSentinel(la) \/ IsSentinel(lo))
    IN SelectSeq(rows, Keep)

\* MicroplasticsNodeGraph3D.jsx: complete (only the coordinates are tested)
nodeGraphComplete(rows) ==
    LET Keep(row) ==
          LET la == ParseFloat(OrElse(row.lat, <<>>))
              lo == ParseFloat(OrElse(row.lon, <<>>))
          IN /\ ~(isNaN(la) \/ isNaN(lo))
             /\ ~(IsSentinel(la) \/ IsSentinel(lo))
    IN SelectSeq(rows, Keep)

\* AIPredictions.jsx, parseAndTrain: complete (a missing concentration is
\* read as "0")
parseAndTrainComplete(rows) ==
    LET Keep(r) ==
          LET la == ParseFloat(OrElse(r.lat, <<>>))
              lo == ParseFloat(OrElse(r.lon, <<>>))
              pieces == ParseFloat(OrElse(r.pieces, <<"0">>))
          IN /\ ~(isNaN(la) \/ isNaN(lo) \/ isNaN(pieces))
             /\ ~(IsSentinel(la) \/ IsSentinel(lo) \/ IsSentinel(pieces))
    IN SelectSeq(rows, Keep)

-----------------------------------------------------------------------------
\* Specification of the loaders: any parsed CSV of at most MaxRows rows, then
\* the complete callback of one component.

BaseRow == [lat |-> <<"1", "0">>, lon |-> <<"1", "2">>,
            pieces |-> <<"5">>, year |-> <<"2", "0", "2", "0">>]

LatCells == {Sentinel, <<"9", "5">>, <<"-", "3", "5">>, <<"a", "b", "c">>,
             <<>>, Undefined}

LonCells == {Sentinel, <<"-", "2", "0", "0">>, <<"x">>}

PiecesCells == {Sentinel, <<>>, <<"x">>, Undefined, <<"0">>}

YearCells == {Undefined, <<>>, <<"a", "b", "c">>, <<"1", "9", "9", "9", "b">>,
              <<" ">>}

\* The rows a CSV may hold: the base row with one cell replaced, and rows
\* with no year whose other cells are bad.
CsvRowDomain ==
    {BaseRow}
    \cup {[BaseRow EXCEPT !.lat = c] : c \in LatCells}
    \cup {[BaseRow EXCEPT !.lon = c] : c \in LonCells}
    \cup {[BaseRow EXCEPT !.pieces = c] : c \in PiecesCells}
    \cup {[BaseRow EXCEPT !.year = c] : c \in YearCells}
    \cup {[BaseRow EXCEPT !.year = Undefined, !.lat = Sentinel],
          [BaseRow EXCEPT !.year = <<>>, !.pieces = <<>>]}

CsvFiles == UNION {[1..k -> CsvRowDomain] : k \in 0..MaxRows}

InitLoader ==
    /\ csvRows \in CsvFiles
    /\ loader = "none"
    /\ cleaned = <<>>
    /\ value = 0
    /\ tacticVal = "none"
    /\ lat = 0
    /\ lon = 0
    /\ timeInc = 0
    /\ call = "none"
    /\ result = 0
    /\ CompIdle
    /\ TimerIdle
    /\ GraphIdle

ParseCsvComplete ==
    /\ loader = "none"
    /\ loader' = "parseCsv"
    /\ cleaned' = parseCsvComplete(csvRows)
    /\ UNCHANGED csvRows
    /\ UNCHANGED mitVars
    /\ UNCHANGED <<compVars, timerVars, graphVars>>

MitigationSimComplete ==
    /\ loader = "none"
    /\ loader' = "MitigationSim"
    /\ cleaned' = mitigationSimComplete(csvRows)
    /\ UNCHANGED csvRows
    /\ UNCHANGED mitVars
    /\ UNCHANGED <<compVars, timerVars, graphVars>>

Level3MapComplete ==
    /\ loader = "none"
    /\ loader' = "Level3Map"
    /\ cleaned' = level3MapComplete(csvRows)
    /\ UNCHANGED csvRows
    /\ UNCHANGED mitVars
    /\ UNCHANGED <<compVars, timerVars, graphVars>>

TimeLapseComplete ==
    /\ loader = "none"
    /\ loader' = "TimeLapseMonthly"
    /\ cleaned' = timeLapseComplete(csvRows)
    /\ UNCHANGED csvRows
    /\ UNCHANGED mitVars
    /\ UNCHANGED <<compVars, timerVars, graphVars>>

NodeGraphComplete ==
    /\ loader = "none"
    /\ loader' = "MicroplasticsNodeGraph3D"
    /\ cleaned' = nodeGraphComplete(csvRows)
    /\ UNCHANGED csvRows
    /\ UNCHANGED mitVars
    /\ UNCHANGED <<compVars, timerVars, graphVars>>

ParseAndTrainComplete ==
    /\ loader = "none"
    /\ loader' = "parseAndTrain"
    /\ cleaned' = parseAndTrainComplete(csvRows)
    /\ UNCHANGED csvRows
    /\ UNCHANGED mitVars
    /\ UNCHANGED <<compVars, timerVars, graphVars>>

NextLoader ==
    \/ ParseCsvComplete
    \/ MitigationSimComplete
    \/ Level3MapComplete
    \/ TimeLapseComplete
    \/ NodeGraphComplete
    \/ ParseAndTrainComplete

SpecLoader == InitLoader /\ [][NextLoader]_vars

-----------------------------------------------------------------------------
\* The grid sampler and the prediction pass (generatePredictions).

\* const step = 10
step == 10

\* Math.floor and Math.ceil of a coordinate given in half degrees.
FloorDeg(h) == h \div 2

CeilDeg(h) == -((-h) \div 2)

\* C11 mutant: the loop test is strict (p < last), dropping the upper end.
RECURSIVE AxisLoop_Strict(_, _, _)
AxisLoop_Strict(p, last, acc) ==
    IF p < last THEN AxisLoop_Strict(p + step, last, Append(acc, p)) ELSE acc

\* C12 mutant: the loop advances before it pushes, so the first point is lost.
RECURSIVE AxisLoop_SkipFirst(_, _, _)
AxisLoop_SkipFirst(p, last, acc) ==
    IF p + step <= last
    THEN AxisLoop_SkipFirst(p + step, last, Append(acc, p + step))
    ELSE acc

\* for (let p = first; p <= last; p += step) points.push(p)
RECURSIVE AxisLoop(_, _, _)
AxisLoop(p, last, acc) ==
    IF p <= last THEN AxisLoop(p + step, last, Append(acc, p)) ELSE acc

latPoints(box) == AxisLoop(FloorDeg(box.minLat), CeilDeg(box.maxLat), <<>>)

lonPoints(box) == AxisLoop(FloorDeg(box.minLon), CeilDeg(box.maxLon), <<>>)

\* latPoints.forEach((lat) => inputArray.push([lat, lon, targetYear]))
RECURSIVE ForEachLat(_, _, _, _)
ForEachLat(acc, lats, lo, targetYear) ==
    IF lats = <<>> THEN acc
    ELSE ForEachLat(Append(acc, <<Head(lats), lo, targetYear>>),
                    Tail(lats), lo, targetYear)

\* lonPoints.forEach((lon) => latPoints.forEach(...))
RECURSIVE ForEachLon(_, _, _, _)
ForEachLon(acc, lons, lats, targetYear) ==
    IF lons = <<>> THEN acc
    ELSE ForEachLon(ForEachLat(acc, lats, Head(lons), targetYear),
                    Tail(lons), lats, targetYear)

\* C13 mutant: the loops are nested the other way round (latitude outside).
RECURSIVE InputArray_LatMajor(_, _, _)
InputArray_LatMajor(lats, lons, targetYear) ==
    IF lats = <<>> THEN <<>>
    ELSE [k \in 1..Len(lons) |-> <<Head(lats), lons[k], targetYear>>]
         \o InputArray_LatMajor(Tail(lats), lons, targetYear)

\* The rows of the input tensor, in the order they are pushed.
InputArray(lats, lons, targetYear) == ForEachLon(<<>>, lons, lats, targetYear)

\* The network's forward pass on one input row.  The trained function is
\* not known; it is one fixed function per weight vector, spreading its
\* outputs (negative ones included) over neighbouring rows.
Forward(weights, x) ==
    Unit * ((((x[1] \div 10) + 4 * (x[2] \div 10) + (x[3] \div 12) + weights)
             % 6) - 1)

\* mlModel.predict(inputTensor) followed by outputTensor.array()
Predict(mlModel, rows) ==
    [k \in 1..Len(rows) |-> <<Forward(mlModel.weights, rows[k])>>]

\* const targetYear = parseFloat(year) + timeInc
TargetYear(year, tInc) == 24 * year + tInc

\* outputData.forEach((pred, idx) => ...): the published points
Preds(outputData, rows, tac, tInc) ==
    [idx \in 1..Len(outputData) |->
        LET val == outputData[idx][1]
            la == rows[idx][1]
            lo == rows[idx][2]
        IN [lat |-> la, lon |-> lo,
            predVal |-> PredictPoint(val, tac, la, lo, tInc)]]

\* The maximum is taken from the last point instead of the scan.
TempMax_LastValue(preds, acc) ==
    IF preds = <<>> THEN acc ELSE preds[Len(preds)].predVal

\* let tempMax = 0; ... if (val > tempMax) tempMax = val
RECURSIVE TempMax(_, _)
TempMax(preds, acc) ==
    IF preds = <<>> THEN acc
    ELSE TempMax(Tail(preds),
                 IF Head(preds).predVal > acc THEN Head(preds).predVal ELSE acc)

\* What one generatePredictions call publishes at its end.
RunPreds(run) ==
    LET rows == InputArray(latPoints(run.box), lonPoints(run.box),
                           TargetYear(run.year, run.timeInc))
    IN Preds(Predict(run.mlModel, rows), rows, run.tacticVal, run.timeInc)

\* The dependency list of the prediction effect.
CurrentDeps(c) ==
    <<c.model, c.boundingBox, c.selectedYear, c.timeIncrement, c.tactic>>

\* C17 mutant: the effect's guard forgets the model.
PredictionGuard_NoModelTest(c) ==
    ~(c.boundingBox = NoBox \/ c.selectedYear = NoYear)

\* if (!model || !boundingBox || selectedYear === null) return;
PredictionGuard(c) ==
    ~(c.model = NoModel \/ c.boundingBox = NoBox \/ c.selectedYear = NoYear)

Remove(seq, k) == [j \in 1..(Len(seq) - 1) |-> IF j < k THEN seq[j] ELSE seq[j + 1]]

\* The catch block also empties the map.
AfterPredictionError_ClearsMap(c) ==
    [c EXCEPT !.predictionError = TRUE, !.isPredicting = FALSE,
              !.heatmapData = <<>>, !.maxVal = 0]

\* catch (error) { console.error(...); setTrainingStatus("Error during
\* prediction. ...") } followed by setIsPredicting(false): the component
\* state these calls leave.  predictionError says that the status shows
\* the error text; every later status overwrites it.
AfterPredictionError(c) ==
    [c EXCEPT !.predictionError = TRUE, !.isPredicting = FALSE]

\* The prediction effect of the heatmap, run by React after a render in
\* which one of its dependencies changed, and generatePredictions up to its
\* await.  A model of another input width makes predict throw: the catch
\* block reports it and nothing is published.
PredictionEffect(i) ==
    /\ page = i
    /\ comp[i].kind = "AIYearHeatmapMitigation"
    /\ comp[i].deps # CurrentDeps(comp[i])
    /\ Len(inFlight) < MaxInFlight
    /\ MathFloor(comp[i].timeIncrement) <= MaxExp
    /\ LET c == comp[i]
           run == [inst |-> i, mlModel |-> c.model, box |-> c.boundingBox,
                   year |-> c.selectedYear, timeInc |-> c.timeIncrement,
                   tacticVal |-> c.tactic]
       IN IF ~PredictionGuard(c)
          THEN /\ comp' = [comp EXCEPT ![i].deps = CurrentDeps(c)]
               /\ inFlight' = inFlight
          ELSE IF c.model.features # 3
          THEN /\ comp' = [comp EXCEPT ![i] =
                          AfterPredictionError(
                              [c EXCEPT !.deps = CurrentDeps(c),
                                        !.predictionProgress = 0])]
               /\ inFlight' = inFlight
          ELSE /\ comp' = [comp EXCEPT ![i].deps = CurrentDeps(c),
                                       ![i].isPredicting = TRUE,
                                       ![i].predictionProgress = 0,
                                       ![i].predictionError = FALSE]
               /\ inFlight' = Append(inFlight, run)
    /\ UNCHANGED <<store, mounts, page>>
    /\ UNCHANGED <<mitVars, loadVars, timerVars, graphVars>>

\* The render keeps the points of value zero.
Rendered_NonNegative(val) == val >= 0

\* if (val <= 0) return null; otherwise a CircleMarker is returned.
Rendered(val) == ~(val <= 0)

\* heatmapData.map((point, i) => ...): the markers on the map.
Markers(heatmapData) ==
    SelectSeq(heatmapData, LAMBDA point : Rendered(point.predVal))

\* The completed pass reports nothing: the bar stays where it was.
ProgressWhenDone_Unreported(shown) == shown

\* setPredictionProgress(100), whatever the bar showed before.
ProgressWhenDone(shown) == 100

\* outputTensor.array() resolves for the k-th suspended call, in whatever
\* order the backend completes the reads: the rest of generatePredictions.
\* React drops the state updates of an instance that is no longer mounted.
PredictionResolved(k) ==
    /\ k \in 1..Len(inFlight)
    /\ LET run == inFlight[k]
           preds == RunPreds(run)
       IN comp' = IF page = run.inst
                  THEN [comp EXCEPT ![run.inst].heatmapData = preds,
                                    ![run.inst].maxVal = TempMax(preds, 0),
                                    ![run.inst].predictionProgress =
                                        ProgressWhenDone(
                                          comp[run.inst].predictionProgress),
                                    ![run.inst].predictionError = FALSE,
                                    ![run.inst].isPredicting = FALSE]
                  ELSE comp
    /\ inFlight' = Remove(inFlight, k)
    /\ UNCHANGED <<store, mounts, page>>
    /\ UNCHANGED <<mitVars, loadVars, timerVars, graphVars>>

\* outputTensor.array() rejects for the k-th suspended call (the backend
\* has lost its context, the tensor was disposed): the catch block runs.
PredictionRejected(k) ==
    /\ k \in 1..Len(inFlight)
    /\ LET run == inFlight[k]
       IN comp' = IF page = run.inst
                  THEN [comp EXCEPT ![run.inst] =
                          AfterPredictionError(comp[run.inst])]
                  ELSE comp
    /\ inFlight' = Remove(inFlight, k)
    /\ UNCHANGED <<store, mounts, page>>
    /\ UNCHANGED <<mitVars, loadVars, timerVars, graphVars>>

\* The tactics and time increments offered in the model's runs.
GridTactics == {"none", "coastal", "globalban"}

\* onChange={(e) => setTactic(e.target.value)}
SelectTactic(i) ==
    /\ page = i
    /\ comp[i].kind = "AIYearHeatmapMitigation"
    /\ \E t \in GridTactics :
         /\ t # comp[i].tactic
         /\ comp' = [comp EXCEPT ![i].tactic = t]
    /\ UNCHANGED <<store, mounts, page, inFlight>>
    /\ UNCHANGED <<mitVars, loadVars, timerVars, graphVars>>

\* onChange={(e) => setTimeIncrement(parseFloat(e.target.value))}
SelectTimeIncrement(i) ==
    /\ page = i
    /\ comp[i].kind = "AIYearHeatmapMitigation"
    /\ \E t \in timeIncrements :
         /\ t # comp[i].timeIncrement
         /\ MathFloor(t) <= 1
         /\ comp' = [comp EXCEPT ![i].timeIncrement = t]
    /\ UNCHANGED <<store, mounts, page, inFlight>>
    /\ UNCHANGED <<mitVars, loadVars, timerVars, graphVars>>

\* The two-feature network of AIPredictions as a function of its input row.
Forward2(weights, x) ==
    Unit * ((((x[1] \div 10) + 4 * (x[2] \div 10) + weights) % 6) - 1)

\* What the user has typed into the latitude and longitude fields.
LatInputs == {<<>>, <<"1", "0">>, <<"9", "1">>}
LonInputs == {<<"2", "0">>, <<"-", "1", "8", "1">>}

\* handlePredict of AIPredictions: the form is submitted.  Without a model
\* an alert is shown; invalid coordinates give another alert; a model of
\* another input width makes predict throw, which is caught and reported;
\* otherwise the predicted value is shown (toFixed(2) of a whole number).
HandlePredict(i) ==
    /\ page = i
    /\ comp[i].kind = "AIPredictions"
    /\ \E latInput \in LatInputs, lonInput \in LonInputs :
         LET c == comp[i]
             latVal == ParseFloat(latInput)
             lonVal == ParseFloat(lonInput)
         IN comp' = [comp EXCEPT ![i] =
              IF c.model = NoModel THEN c
              ELSE IF \/ latVal.nan \/ lonVal.nan
                      \/ latVal.n < -90 \/ latVal.n > 90
                      \/ lonVal.n < -180 \/ lonVal.n > 180
              THEN c
              ELSE IF c.model.features # 2
              THEN [c EXCEPT !.predictionError = TRUE]
              ELSE [c EXCEPT !.predictionOutput =
                      <<Forward2(c.model.weights, <<latVal.n, lonVal.n>>)>>]]
    /\ UNCHANGED <<store, mounts, page, inFlight>>
    /\ UNCHANGED <<mitVars, loadVars, timerVars, graphVars>>

-----------------------------------------------------------------------------
\* Specification of the grid sampler: a heatmap whose model and data are
\* loaded, over any bounding box, running its prediction pass.

\* Box edges in half degrees: -9.5, 0, 0.5, 10, 20, 21.5 and 0, 0.5, 10, 20,
\* 20.5 degrees.
LatEdges == {-19, 0, 1, 20, 40, 43}

LonEdges == {0, 1, 20, 40, 41}

Boxes ==
    {[minLat |-> a, maxLat |-> b, minLon |-> c, maxLon |-> d,
      minYear |-> defaultYear, maxYear |-> defaultYear] :
        a \in LatEdges, b \in LatEdges, c \in LonEdges, d \in LonEdges}

ValidBoxes == {b \in Boxes : b.minLat <= b.maxLat /\ b.minLon <= b.maxLon}

\* A stored model as a training run of the given component leaves it.
SavedModel(kind, w) ==
    [features |-> InputShape(kind), trained |-> TRUE, by |-> 0, weights |-> w]

InitGrid ==
    /\ \E box \in ValidBoxes, w \in {1, 2} :
         comp = [i \in Inst |->
                   IF i = 1
                   THEN [Unmounted EXCEPT
                           !.kind = "AIYearHeatmapMitigation",
                           !.pc = "ready",
                           !.model = SavedModel("AIYearHeatmapMitigation", w),
                           !.boundingBox = box,
                           !.selectedYear = defaultYear,
                           !.deps = CurrentDeps(Unmounted)]
                   ELSE Unmounted]
    /\ store = [u \in Urls |->
                  IF u = MODEL_URL THEN comp[1].model ELSE NoModel]
    /\ mounts = MaxMounts
    /\ page = 1
    /\ inFlight = <<>>
    /\ MitIdle
    /\ GraphIdle
    /\ csvRows = <<>>
    /\ loader = "none"
    /\ cleaned = <<>>
    /\ TimerIdle

NextGrid ==
    \/ \E i \in Inst : PredictionEffect(i)
    \/ \E k \in 1..MaxInFlight : PredictionResolved(k)
    \/ \E i \in Inst : SelectTactic(i)

SpecGrid == InitGrid /\ [][NextGrid]_vars

-----------------------------------------------------------------------------
\* The model lifecycle: the mount effect of a model-backed view and the
\* asynchronous chain it starts (load, remove, parse, fit, save).  Each
\* action is one continuation of that chain, from one await or callback to
\* the next.

IsHeatmap(kind) ==
    kind \in {"AIYearHeatmapMitigation", "AIYearHeatmapMitigationOld"}

\* React drops the state updates of an instance that is no longer mounted:
\* the component state after the updates that turn it into c.
SetState(i, c) == IF page = i THEN c ELSE comp[i]

\* The rows the component's complete callback keeps.
CleanedRows(kind) ==
    IF kind = "AIPredictions" THEN parseAndTrainComplete(csvRows)
    ELSE parseCsvComplete(csvRows)

\* The coordinate of a cleaned row, in half degrees.
HalfDeg(cell) == 2 * ParseFloat(cell).n

\* parseFloat(r["year"] || "2025")
YearOf(cell) == ParseFloat(OrElse(cell, NumToStr(defaultYear))).n

\* The scan starts from -9999 everywhere, also for the minima.
BoxSeed_AllLow ==
    [minLat |-> 2 * (-9999), maxLat |-> 2 * (-9999),
     minLon |-> 2 * (-9999), maxLon |-> 2 * (-9999),
     minYear |-> -9999, maxYear |-> -9999]

\* let minLat = 9999, maxLat = -9999, minLon = 9999, maxLon = -9999;
\* let minYear = 9999, maxYear = -9999;
BoxSeed ==
    [minLat |-> 2 * 9999, maxLat |-> 2 * (-9999),
     minLon |-> 2 * 9999, maxLon |-> 2 * (-9999),
     minYear |-> 9999, maxYear |-> -9999]

\* rows.forEach((r) => { if (lat < minLat) minLat = lat; ... })
RECURSIVE BoxOf(_, _)
BoxOf(rows, acc) ==
    IF rows = <<>> THEN acc
    ELSE LET la == HalfDeg(Head(rows).lat)
             lo == HalfDeg(Head(rows).lon)
             yearNum == YearOf(Head(rows).year)
         IN BoxOf(Tail(rows),
                  [minLat |-> IF la < acc.minLat THEN la ELSE acc.minLat,
                   maxLat |-> IF la > acc.maxLat THEN la ELSE acc.maxLat,
                   minLon |-> IF lo < acc.minLon THEN lo ELSE acc.minLon,
                   maxLon |-> IF lo > acc.maxLon THEN lo ELSE acc.maxLon,
                   minYear |-> IF yearNum < acc.minYear
                               THEN yearNum ELSE acc.minYear,
                   maxYear |-> IF yearNum > acc.maxYear
                               THEN yearNum ELSE acc.maxYear])

\* The box trainModel sets before it fits.
BoundingBoxOf(rows) == BoxOf(rows, BoxSeed)

\* The box setupDataForPostTraining sets when the model came from the store.
PostTrainingBox(rows) == BoxOf(rows, BoxSeed)

\* The weight vectors a training run may end with.
TrainedWeights == {1, 2}

\* The user opens the route of a model-backed view: a new instance is
\* mounted and its mount effect awaits tf.loadLayersModel.
Mount ==
    /\ page = 0
    /\ mounts < MaxMounts
    /\ \E kind \in Components :
         comp' = [comp EXCEPT ![mounts + 1] =
                    [Unmounted EXCEPT !.kind = kind, !.pc = "loading"]]
    /\ mounts' = mounts + 1
    /\ page' = mounts + 1
    /\ UNCHANGED <<store, inFlight>>
    /\ UNCHANGED <<mitVars, loadVars, timerVars, graphVars>>

\* The user leaves the route.  No component has a cleanup function: the
\* chain and the suspended predictions of the instance go on.
Unmount ==
    /\ page # 0
    /\ page' = 0
    /\ UNCHANGED <<comp, store, mounts, inFlight>>
    /\ UNCHANGED <<mitVars, loadVars, timerVars, graphVars>>

\* tf.loadLayersModel resolves with what is stored under the key.
LoadResolved(i) ==
    /\ comp[i].pc = "loading"
    /\ store[ModelUrl(comp[i].kind)] # NoModel
    /\ LET loaded == store[ModelUrl(comp[i].kind)]
           set == SetState(i, [comp[i] EXCEPT !.model = loaded])
       IN comp' = [comp EXCEPT ![i] =
                     [set EXCEPT !.pc = IF IsHeatmap(comp[i].kind)
                                        THEN "parsingLoad" ELSE "ready"]]
    /\ UNCHANGED <<store, mounts, page, inFlight>>
    /\ UNCHANGED <<mitVars, loadVars, timerVars, graphVars>>

\* C15 mutant: the catch block calls parseCsv(false), as the try block does.
AfterLoadFailure_NoTrain(kind) == "parsingLoad"

\* Where the catch block of the mount effect leaves the chain: the current
\* heatmap awaits removeModel, the others call parseCsv(true) / parseAndTrain.
AfterLoadFailure(kind) ==
    IF kind = "AIYearHeatmapMitigation" THEN "removing" ELSE "parsingTrain"

\* tf.loadLayersModel rejects: nothing under the key, or an entry that
\* cannot be read.  The heatmap first removes the entry, the others go
\* straight to the CSV.
LoadRejected(i) ==
    /\ comp[i].pc = "loading"
    /\ comp' = [comp EXCEPT ![i].pc = AfterLoadFailure(comp[i].kind)]
    /\ UNCHANGED <<store, mounts, page, inFlight>>
    /\ UNCHANGED <<mitVars, loadVars, timerVars, graphVars>>

\* await tf.io.removeModel(olderModelURL) is over (its error is caught);
\* parseCsv(true) starts the download.
RemoveDone(i) ==
    /\ comp[i].pc = "removing"
    /\ store' = [store EXCEPT ![MODEL_URL] = NoModel]
    /\ comp' = [comp EXCEPT ![i].pc = "parsingTrain"]
    /\ UNCHANGED <<mounts, page, inFlight>>
    /\ UNCHANGED <<mitVars, loadVars, timerVars, graphVars>>

\* The complete callback trains on every row list, also the empty one.
HasValidData_Always(rows) == TRUE

\* if (cleaned.length > 0) / if (cleaned.length === 0) { ...; return; }
HasValidData(rows) == rows # <<>>

\* Papa.parse complete: the rows are cleaned; with no row left the status
\* says so; otherwise trainModel runs up to its await of fit, or
\* setupDataForPostTraining runs.
CsvComplete(i) ==
    /\ comp[i].pc \in {"parsingTrain", "parsingLoad"}
    /\ \E c \in {comp[i]} : \E rows \in {CleanedRows(c.kind)} :
       \E box \in {IF c.pc = "parsingLoad" THEN PostTrainingBox(rows)
                    ELSE BoundingBoxOf(rows)} :
          comp' = [comp EXCEPT ![i] =
            IF ~HasValidData(rows) THEN [c EXCEPT !.pc = "noData"]
            ELSE IF c.pc = "parsingLoad"
            THEN [SetState(i, [c EXCEPT !.boundingBox = box,
                                        !.selectedYear = defaultYear])
                    EXCEPT !.pc = "ready"]
            ELSE IF IsHeatmap(c.kind)
            THEN [SetState(i, [c EXCEPT !.isTraining = TRUE,
                                        !.boundingBox = box])
                    EXCEPT !.pc = "fitting",
                           !.newModel = [features |-> 3, trained |-> FALSE,
                                         by |-> i, weights |-> 0]]
            ELSE [c EXCEPT !.pc = "fitting",
                           !.newModel = [features |-> 2, trained |-> FALSE,
                                         by |-> i, weights |-> 0]]]
    /\ UNCHANGED <<store, mounts, page, inFlight>>
    /\ UNCHANGED <<mitVars, loadVars, timerVars, graphVars>>

\* Papa.parse error: the download failed.
CsvError(i) ==
    /\ comp[i].pc \in {"parsingTrain", "parsingLoad"}
    /\ comp' = [comp EXCEPT ![i].pc = "csvError"]
    /\ UNCHANGED <<store, mounts, page, inFlight>>
    /\ UNCHANGED <<mitVars, loadVars, timerVars, graphVars>>

\* onTrainEnd leaves the training flag as it is.
isTrainingAtTrainEnd_Kept(c) == c.isTraining

\* onTrainEnd: setIsTraining(false)
isTrainingAtTrainEnd(c) == FALSE

\* The last epoch is over and onTrainEnd runs, up to the await of save:
\* in the heatmaps isTraining is cleared, in AIPredictions the new model
\* is set before it is saved.
FitResolved(i) ==
    /\ comp[i].pc = "fitting"
    /\ \E w \in TrainedWeights :
         LET c == comp[i]
             fitted == [c.newModel EXCEPT !.trained = TRUE, !.weights = w]
             set == IF IsHeatmap(c.kind)
                    THEN SetState(i, [c EXCEPT !.isTraining =
                                                   isTrainingAtTrainEnd(c)])
                    ELSE SetState(i, [c EXCEPT !.model = fitted])
         IN comp' = [comp EXCEPT ![i] =
                       [set EXCEPT !.pc = "saving", !.newModel = fitted]]
    /\ UNCHANGED <<store, mounts, page, inFlight>>
    /\ UNCHANGED <<mitVars, loadVars, timerVars, graphVars>>

\* fit throws.  Each component catches it; the current heatmap then sets
\* the years and stops, AIPredictions stops, and the older heatmap goes on
\* to save the model it was fitting.
FitRejected(i) ==
    /\ comp[i].pc = "fitting"
    /\ LET c == comp[i] IN
       comp' = [comp EXCEPT ![i] =
          CASE c.kind = "AIYearHeatmapMitigation" ->
                 [SetState(i, [c EXCEPT !.isTraining = FALSE,
                                        !.selectedYear = defaultYear])
                    EXCEPT !.pc = "trainFailed"]
            [] c.kind = "AIYearHeatmapMitigationOld" ->
                 [SetState(i, [c EXCEPT !.isTraining = FALSE])
                    EXCEPT !.pc = "saving"]
            [] OTHER -> [c EXCEPT !.pc = "trainFailed"]]
    /\ UNCHANGED <<store, mounts, page, inFlight>>
    /\ UNCHANGED <<mitVars, loadVars, timerVars, graphVars>>

\* newModel.save resolves: the entry under the key is overwritten; the
\* heatmaps then set the model and the selected year.
SaveResolved(i) ==
    /\ comp[i].pc = "saving"
    /\ LET c == comp[i] IN
       /\ store' = [store EXCEPT ![ModelUrl(c.kind)] = c.newModel]
       /\ comp' = [comp EXCEPT ![i] =
            IF IsHeatmap(c.kind)
            THEN [SetState(i, [c EXCEPT !.model = c.newModel,
                                        !.selectedYear = defaultYear])
                    EXCEPT !.pc = "ready"]
            ELSE [c EXCEPT !.pc = "ready"]]
    /\ UNCHANGED <<mounts, page, inFlight>>
    /\ UNCHANGED <<mitVars, loadVars, timerVars, graphVars>>

\* newModel.save rejects (the store is full): the heatmaps catch it and
\* still set the model; in AIPredictions the exception leaves onTrainEnd
\* and ends in trainModel's catch.
SaveRejected(i) ==
    /\ comp[i].pc = "saving"
    /\ LET c == comp[i] IN
       comp' = [comp EXCEPT ![i] =
            IF IsHeatmap(c.kind)
            THEN [SetState(i, [c EXCEPT !.model = c.newModel,
                                        !.selectedYear = defaultYear])
                    EXCEPT !.pc = "ready"]
            ELSE [c EXCEPT !.pc = "trainFailed"]]
    /\ UNCHANGED <<store, mounts, page, inFlight>>
    /\ UNCHANGED <<mitVars, loadVars, timerVars, graphVars>>

-----------------------------------------------------------------------------
\* Specification of the lifecycle: the views are opened and left in any
\* order, over one CSV file and one model store.

HeatRow == [lat |-> <<"1", "0">>, lon |-> <<"2", "0">>,
            pieces |-> <<"5">>, year |-> <<"2", "0", "2", "0">>]

\* The CSV the views download: empty, only a sentinel row, one valid row,
\* or two valid rows.
LifecycleFiles ==
    {<<>>, <<[HeatRow EXCEPT !.lat = Sentinel]>>, <<HeatRow>>,
     <<HeatRow, [HeatRow EXCEPT !.lat = <<"2", "0">>, !.year = Undefined]>>}

InitLifecycle ==
    /\ CompIdle
    /\ csvRows \in LifecycleFiles
    /\ loader = "none"
    /\ cleaned = <<>>
    /\ MitIdle
    /\ GraphIdle
    /\ TimerIdle

NextLifecycle ==
    \/ Mount
    \/ Unmount
    \/ \E i \in Inst : LoadResolved(i)
    \/ \E i \in Inst : LoadRejected(i)
    \/ \E i \in Inst : RemoveDone(i)
    \/ \E i \in Inst : CsvComplete(i)
    \/ \E i \in Inst : CsvError(i)
    \/ \E i \in Inst : FitResolved(i)
    \/ \E i \in Inst : FitRejected(i)
    \/ \E i \in Inst : SaveResolved(i)
    \/ \E i \in Inst : SaveRejected(i)

SpecLifecycle == InitLifecycle /\ [][NextLifecycle]_vars

\* The same views when nothing fails but the load: no download error, no
\* exception in fit, no rejected save.  Every suspended chain is resumed.
NextCacheMiss ==
    \/ Mount
    \/ Unmount
    \/ \E i \in Inst : LoadResolved(i)
    \/ \E i \in Inst : LoadRejected(i)
    \/ \E i \in Inst : RemoveDone(i)
    \/ \E i \in Inst : CsvComplete(i)
    \/ \E i \in Inst : FitResolved(i)
    \/ \E i \in Inst : SaveResolved(i)

ChainStep(i) ==
    \/ LoadResolved(i)
    \/ LoadRejected(i)
    \/ RemoveDone(i)
    \/ CsvComplete(i)
    \/ FitResolved(i)
    \/ SaveResolved(i)

SpecCacheMiss ==
    /\ InitLifecycle
    /\ [][NextCacheMiss]_vars
    /\ \A i \in Inst : WF_vars(ChainStep(i))

-----------------------------------------------------------------------------
\* Specification of the bounding box: the views are opened and left over a
\* CSV whose rows lie inside or outside the range -9999..9999.
FarNorth == <<"1", "0", "0", "0", "0">>
FarSouth == <<"-", "1", "0", "0", "0", "0">>

BoxFiles ==
    {<<HeatRow>>,
     <<HeatRow, [HeatRow EXCEPT !.lat = <<"2", "0">>, !.year = Undefined]>>,
     <<[HeatRow EXCEPT !.lat = <<"-", "3", "5">>, !.lon = <<"4", "6">>,
                       !.year = <<"1", "9", "9", "9">>], HeatRow>>,
     <<[HeatRow EXCEPT !.lat = FarNorth]>>,
     <<[HeatRow EXCEPT !.lon = FarSouth]>>,
     <<HeatRow, [HeatRow EXCEPT !.lat = FarNorth]>>,
     <<[HeatRow EXCEPT !.year = FarNorth]>>}

InitBox ==
    /\ CompIdle
    /\ csvRows \in BoxFiles
    /\ loader = "none"
    /\ cleaned = <<>>
    /\ MitIdle
    /\ GraphIdle
    /\ TimerIdle

SpecBox == InitBox /\ [][NextCacheMiss]_vars

-----------------------------------------------------------------------------
\* The time-lapse view (TimeLapseMonthly): an interval timer advances the
\* displayed month.  timers holds the ids of the intervals the browser has
\* active; intervalRef is the ref of the instance mounted last (0 for null).

\* const months = ["Jan.", ..., "Dec."]; months.length
monthsLength == 12

\* The user opens /timelapse: a new instance, with useState(0) and
\* useRef(null).  The browser's timers are not touched.
MountTimeLapse ==
    /\ ~tlMounted
    /\ tlMounted' = TRUE
    /\ intervalRef' = 0
    /\ monthIndex' = 0
    /\ UNCHANGED <<timers, timerIds>>
    /\ UNCHANGED <<mitVars, loadVars, compVars, graphVars>>

\* The user leaves /timelapse.  The component registers no cleanup.
UnmountTimeLapse ==
    /\ tlMounted
    /\ tlMounted' = FALSE
    /\ UNCHANGED <<intervalRef, timers, timerIds, monthIndex>>
    /\ UNCHANGED <<mitVars, loadVars, compVars, graphVars>>

\* Start never looks at the stored handle.
AlreadyStarted_Never(current) == FALSE

\* if (intervalRef.current)
AlreadyStarted(current) == current # 0

\* if (intervalRef.current) return; intervalRef.current = setInterval(...)
startTimeLapse ==
    /\ tlMounted
    /\ IF AlreadyStarted(intervalRef)
       THEN UNCHANGED <<intervalRef, timers, timerIds>>
       ELSE /\ timerIds < MaxTimers
            /\ timerIds' = timerIds + 1
            /\ timers' = timers \cup {timerIds + 1}
            /\ intervalRef' = timerIds + 1
    /\ UNCHANGED <<tlMounted, monthIndex>>
    /\ UNCHANGED <<mitVars, loadVars, compVars, graphVars>>

\* clearInterval(intervalRef.current); intervalRef.current = null
stopTimeLapse ==
    /\ tlMounted
    /\ timers' = timers \ {intervalRef}
    /\ intervalRef' = 0
    /\ UNCHANGED <<tlMounted, timerIds, monthIndex>>
    /\ UNCHANGED <<mitVars, loadVars, compVars, graphVars>>

\* An active interval fires: setMonthIndex(prev => (prev + 1) % months.length)
\* on the instance that created it.  React drops the update when that
\* instance is no longer mounted.
Tick(id) ==
    /\ id \in timers
    /\ monthIndex' = IF tlMounted /\ id = intervalRef
                     THEN (monthIndex + 1) % monthsLength
                     ELSE monthIndex
    /\ UNCHANGED <<tlMounted, intervalRef, timers, timerIds>>
    /\ UNCHANGED <<mitVars, loadVars, compVars, graphVars>>

InitTimer ==
    /\ TimerIdle
    /\ CompIdle
    /\ MitIdle
    /\ GraphIdle
    /\ csvRows = <<>>
    /\ loader = "none"
    /\ cleaned = <<>>

NextTimer ==
    \/ MountTimeLapse
    \/ UnmountTimeLapse
    \/ startTimeLapse
    \/ stopTimeLapse
    \/ \E id \in 1..MaxTimers : Tick(id)

SpecTimer == InitTimer /\ [][NextTimer]_vars

\* Specification of the playback controls: the time-lapse view is on
\* screen and stays there; the user clicks Start and Stop.
InitPlayback ==
    /\ tlMounted = TRUE
    /\ intervalRef = 0
    /\ timers = {}
    /\ timerIds = 0
    /\ monthIndex = 0
    /\ CompIdle
    /\ MitIdle
    /\ GraphIdle
    /\ csvRows = <<>>
    /\ loader = "none"
    /\ cleaned = <<>>

NextPlayback ==
    \/ startTimeLapse
    \/ stopTimeLapse
    \/ \E id \in 1..MaxTimers : Tick(id)

SpecPlayback == InitPlayback /\ [][NextPlayback]_vars

-----------------------------------------------------------------------------
\* The 3D node graph (MicroplasticsNodeGraph3D): every cleaned row is a
\* node; grouped nodes are pinned (fx, fy, fz) to the centre of their
\* country, the nodes of the expanded country are let go.

\* function getClosestCountry(lat, lon)
getClosestCountry(la, lo) ==
    IF la >= 25 /\ la <= 49 /\ lo >= -125 /\ lo <= -66 THEN "USA"
    ELSE IF la >= 50 /\ la <= 70 /\ lo >= -140 /\ lo <= -50 THEN "Canada"
    ELSE IF la >= -34 /\ la <= 5 /\ lo >= -74 /\ lo <= -34 THEN "Brazil"
    ELSE IF la >= -44 /\ la <= -10 /\ lo >= 113 /\ lo <= 154
    THEN "Australia"
    ELSE IF la >= 41 /\ la <= 77 /\ lo >= 30 /\ lo <= 180 THEN "Russia"
    ELSE IF la >= 18 /\ la <= 53 /\ lo >= 73 /\ lo <= 135 THEN "China"
    ELSE IF la >= 6 /\ la <= 35 /\ lo >= 68 /\ lo <= 97 THEN "India"
    ELSE IF la >= 35 /\ la <= 71 /\ lo >= -10 /\ lo <= 40 THEN "EU"
    ELSE IF la >= -35 /\ la <= 37 /\ lo >= -17 /\ lo <= 51 THEN "Africa"
    ELSE "Other"

\* const countryCenters
countryCenters ==
    [c \in {"USA", "Canada", "Brazil", "Australia", "Russia", "China",
            "India", "EU", "Africa", "Other"} |->
       CASE c = "USA" -> <<0, 0, 0>>
         [] c = "Canada" -> <<80, 60, 0>>
         [] c = "Brazil" -> <<-80, -40, 0>>
         [] c = "Australia" -> <<50, -100, 50>>
         [] c = "Russia" -> <<0, 100, -50>>
         [] c = "China" -> <<120, 10, 80>>
         [] c = "India" -> <<100, -60, 80>>
         [] c = "EU" -> <<-120, 20, 50>>
         [] c = "Africa" -> <<-20, -80, 0>>
         [] OTHER -> <<0, 120, 0>>]

\* fx, fy, fz undefined: the node is free.
Unpinned == <<>>

\* cleaned.map((row, i) => ({ id: `node-${i}`, lat, lon, country, ... })):
\* the nodes as loaded carry no fx, fy, fz.
GraphNodes(rows) ==
    [k \in 1..Len(rows) |->
        LET la == ParseFloat(rows[k].lat).n
            lo == ParseFloat(rows[k].lon).n
        IN [id |-> k - 1, lat |-> la, lon |-> lo,
            country |-> getClosestCountry(la, lo), pin |-> Unpinned]]

\* What the two draws of Math.random may leave as the link target of node
\* k: another node of its country, or nothing (0) when it is alone or its
\* own id was drawn twice.
LinkTargets(nodes, k) ==
    {0} \cup {j \in 1..Len(nodes) :
                 j # k /\ nodes[j].country = nodes[k].country}

\* links.push({ source: n.id, target: randomId }), in the order of the nodes
GraphLinks(nodes, target) ==
    LET linked == SelectSeq([k \in 1..Len(nodes) |-> k],
                            LAMBDA k : target[k] # 0)
    IN [m \in 1..Len(linked) |->
          [source |-> nodes[linked[m]].id,
           target |-> nodes[target[linked[m]]].id]]

\* Papa.parse complete: the rows are filtered, nodes and links are built,
\* kept in rawDataRef and displayed.
GraphCsvComplete ==
    /\ ~rawDataRef.loaded
    /\ \E nodes \in {GraphNodes(nodeGraphComplete(csvRows))} :
       \E target \in [1..Len(nodes) -> 0..Len(nodes)] :
          /\ \A k \in 1..Len(nodes) : target[k] \in LinkTargets(nodes, k)
          /\ rawDataRef' = [nodes |-> nodes,
                            links |-> GraphLinks(nodes, target),
                            loaded |-> TRUE]
          /\ graphData' = [nodes |-> nodes,
                           links |-> GraphLinks(nodes, target)]
    /\ UNCHANGED <<groupedByCountry, expandedCountry, pinDeps>>
    /\ UNCHANGED <<mitVars, loadVars, compVars, timerVars>>

\* old.nodes.map(n => ...) of the pin effect, for one node
PinOf(n, grouped, expanded) ==
    IF ~grouped THEN Unpinned
    ELSE IF expanded # "null" /\ n.country = expanded THEN Unpinned
    ELSE countryCenters[n.country]

\* The effect on [groupedByCountry, expandedCountry], run by React after
\* the first render and after a render in which one of the two changed.
PinEffect ==
    /\ pinDeps # <<groupedByCountry, expandedCountry>>
    /\ pinDeps' = <<groupedByCountry, expandedCountry>>
    /\ IF ~rawDataRef.loaded
       THEN graphData' = graphData
       ELSE graphData' =
              [nodes |-> [k \in 1..Len(rawDataRef.nodes) |->
                            [rawDataRef.nodes[k] EXCEPT
                               !.pin = PinOf(rawDataRef.nodes[k],
                                             groupedByCountry,
                                             expandedCountry)]],
               links |-> rawDataRef.links]
    /\ UNCHANGED <<groupedByCountry, expandedCountry, rawDataRef>>
    /\ UNCHANGED <<mitVars, loadVars, compVars, timerVars>>

\* onClick={() => setGroupedByCountry(g => !g)}
ToggleGrouped ==
    /\ groupedByCountry' = ~groupedByCountry
    /\ UNCHANGED <<graphData, expandedCountry, rawDataRef, pinDeps>>
    /\ UNCHANGED <<mitVars, loadVars, compVars, timerVars>>

\* handleNodeClick(node), for a node on display
handleNodeClick(k) ==
    /\ k \in 1..Len(graphData.nodes)
    /\ expandedCountry' =
         IF groupedByCountry /\ expandedCountry # graphData.nodes[k].country
         THEN graphData.nodes[k].country
         ELSE expandedCountry
    /\ UNCHANGED <<graphData, groupedByCountry, rawDataRef, pinDeps>>
    /\ UNCHANGED <<mitVars, loadVars, compVars, timerVars>>

\* handleReassemble; the button is rendered when groupedByCountry &&
\* expandedCountry.
handleReassemble ==
    /\ groupedByCountry
    /\ expandedCountry # "null"
    /\ expandedCountry' = "null"
    /\ UNCHANGED <<graphData, groupedByCountry, rawDataRef, pinDeps>>
    /\ UNCHANGED <<mitVars, loadVars, compVars, timerVars>>

\* Rows in the USA (two), in the EU and in Africa.
GraphRow(la, lo) == [HeatRow EXCEPT !.lat = la, !.lon = lo]

GraphFiles ==
    {<<GraphRow(<<"3", "0">>, <<"-", "1", "0", "0">>),
       GraphRow(<<"5", "0">>, <<"1", "0">>)>>,
     <<GraphRow(<<"3", "0">>, <<"-", "1", "0", "0">>),
       GraphRow(<<"4", "0">>, <<"-", "9", "0">>),
       GraphRow(<<"0">>, <<"0">>)>>,
     <<GraphRow(Sentinel, <<"0">>), GraphRow(<<"0">>, <<"0">>)>>}

\* The node graph has just been mounted; its CSV is being downloaded.
InitGraph ==
    /\ GraphIdle
    /\ csvRows \in GraphFiles
    /\ loader = "none"
    /\ cleaned = <<>>
    /\ CompIdle
    /\ MitIdle
    /\ TimerIdle

NextGraph ==
    \/ GraphCsvComplete
    \/ PinEffect
    \/ ToggleGrouped
    \/ \E k \in 1..Len(graphData.nodes) : handleNodeClick(k)
    \/ handleReassemble

SpecGraph == InitGraph /\ [][NextGraph]_vars

-----------------------------------------------------------------------------
\* Specification of the predictions: one view is opened over a store that
\* is empty or holds what an earlier session saved; the user works its
\* controls while its chain and its prediction passes run.
StoresAtStart ==
    {[u \in Urls |-> NoModel],
     [u \in Urls |-> IF u = MODEL_URL
                     THEN SavedModel("AIYearHeatmapMitigation", 1)
                     ELSE NoModel],
     [u \in Urls |-> IF u = PlainUrl
                     THEN SavedModel("AIPredictions", 1)
                     ELSE NoModel]}

PredictFiles ==
    {<<HeatRow>>,
     <<HeatRow, [HeatRow EXCEPT !.lat = <<"2", "0">>, !.year = Undefined]>>}

InitPredict ==
    /\ comp = [i \in Inst |-> Unmounted]
    /\ store \in StoresAtStart
    /\ mounts = MaxMounts - 1
    /\ page = 0
    /\ inFlight = <<>>
    /\ csvRows \in PredictFiles
    /\ loader = "none"
    /\ cleaned = <<>>
    /\ MitIdle
    /\ GraphIdle
    /\ TimerIdle

NextPredict ==
    \/ Mount
    \/ Unmount
    \/ \E i \in Inst : LoadResolved(i)
    \/ \E i \in Inst : LoadRejected(i)
    \/ \E i \in Inst : RemoveDone(i)
    \/ \E i \in Inst : CsvComplete(i)
    \/ \E i \in Inst : FitResolved(i)
    \/ \E i \in Inst : FitRejected(i)
    \/ \E i \in Inst : SaveResolved(i)
    \/ \E i \in Inst : PredictionEffect(i)
    \/ \E k \in 1..MaxInFlight : PredictionResolved(k)
    \/ \E k \in 1..MaxInFlight : PredictionRejected(k)
    \/ \E i \in Inst : SelectTactic(i)
    \/ \E i \in Inst : SelectTimeIncrement(i)
    \/ \E i \in Inst : HandlePredict(i)

SpecPredict == InitPredict /\ [][NextPredict]_vars

-----------------------------------------------------------------------------
\* The properties.  The tactic table is restated here as the properties read
\* it: kind, rate (in twentieths) and predicate per tactic id.

CatalogIds == <<"none", "coastal", "openocean", "globalban", "river",
                "biodegradable", "industrial", "awareness",
                "wastemanagement", "legislation", "oceanrestoration",
                "erosioncontrol">>

TableKind(id) ==
    CASE id = "none" -> "none"
      [] id \in {"coastal", "openocean", "river", "industrial",
                 "wastemanagement", "erosioncontrol"} -> "perYear"
      [] OTHER -> "oneTime"

TableRate(id) ==
    CASE id = "none" -> 0
      [] id = "coastal" -> 4
      [] id = "openocean" -> 6
      [] id = "globalban" -> 10
      [] id = "river" -> 8
      [] id = "biodegradable" -> 5
      [] id = "industrial" -> 7
      [] id = "awareness" -> 3
      [] id = "wastemanagement" -> 8
      [] id = "legislation" -> 6
      [] id = "oceanrestoration" -> 4
      [] id = "erosioncontrol" -> 5

TableApplies(id, la, lo) ==
    CASE id = "coastal" -> Abs(la) < 15 \/ Abs(lo) < 15
      [] id = "openocean" -> Abs(la) >= 15 /\ Abs(lo) >= 15
      [] id = "river" -> -10 <= la /\ la <= 10
      [] id = "industrial" -> Abs(la) < 30 /\ Abs(lo) < 30
      [] id = "wastemanagement" -> Abs(la) <= 45 /\ Abs(lo) <= 45
      [] id = "erosioncontrol" -> -20 <= la /\ la <= 20
      [] OTHER -> TRUE

\* The call in this state is on a catalog tactic that is of kind none or
\* whose predicate is false at the point.
NotApplicable ==
    /\ tacticVal \in TacticIds
    /\ TableKind(tacticVal) = "none" \/ ~TableApplies(tacticVal, lat, lon)

\* The call in this state is on a catalog tactic of the given kind that
\* applies at the point.
Applicable(kind) ==
    /\ tacticVal \in TacticIds
    /\ TableKind(tacticVal) = kind
    /\ TableApplies(tacticVal, lat, lon)

\* The entry points whose result depends on the elapsed time.
TimedCalls == {"applyMitigationStrategy", "generatePredictions",
               "generatePredictionsMonthly"}

\* What the entry point that ran in this state returns at elapsed time t.
ResultAt(t) ==
    CASE call = "applyMitigationStrategy" ->
           applyMitigationStrategy(value, tacticVal, lat, lon, t)
      [] call = "generatePredictions" ->
           PredictPoint(value, tacticVal, lat, lon, t)
      [] call = "generatePredictionsMonthly" ->
           PredictPointMonthly(value, tacticVal, lat, lon, t)

\* C1: for every tactic, point, elapsed time and raw value v > 0, every
\* variant of the mitigation function returns a value in [0, v].
C1_NeverIncreases ==
    (call # "none" /\ value > 0) => (0 <= result /\ result <= value)

C1_Witness ==
    /\ call = "applyMitigationStrategy"
    /\ tacticVal = "globalban"
    /\ value = 5 * Unit
    /\ result = Times(5 * Unit, 10)

\* C2 as stated: for a tactic of kind none or a false predicate the function
\* returns v unchanged, for any raw value v.
C2_UnchangedAnyValue ==
    (call # "none" /\ NotApplicable) => result = value

\* C2 amended: for a tactic of kind none or a false predicate the function
\* returns v unchanged, for any raw value v >= 0 and any elapsed time.
C2_UnchangedNonNegative ==
    (call # "none" /\ NotApplicable /\ value >= 0) => result = value

C2_Witness ==
    /\ call = "applyMitigation"
    /\ tacticVal = "river"
    /\ lat = 11
    /\ value = 5 * Unit
    /\ timeInc = 48
    /\ result = 5 * Unit

\* C3: for an applicable PerYear tactic (and v > 0) the adjusted value is
\* v * (1 - rate)^n with n = floor(elapsed years), in the rule and in each
\* prediction pipeline that feeds it the selected time increment.
C3_WholeYearsOnly ==
    (call \in TimedCalls /\ Applicable("perYear") /\ value > 0)
        => result = TimesPow(value, 20 - TableRate(tacticVal), timeInc \div 24)

\* C4: for every OneTime tactic (and v > 0) the adjusted value is
\* v * (1 - rate), whatever the elapsed time.
C4_OneTimeInvariant ==
    (call \in TimedCalls /\ Applicable("oneTime") /\ value > 0)
        => /\ result = Times(value, 20 - TableRate(tacticVal))
           /\ \A t \in TimeIncs : ResultAt(t) = result

\* C5: PerYear decay never grows with elapsed time: what the rule returns
\* at a later elapsed time is at most what it returned in this state.
C5_MonotoneInYears ==
    (call \in {"applyMitigationStrategy", "generatePredictions"}
       /\ tacticVal \in TacticIds /\ TableKind(tacticVal) = "perYear")
        => \A y2 \in TimeIncs : y2 > timeInc => result >= ResultAt(y2)

C5_Witness ==
    /\ call = "applyMitigationStrategy"
    /\ tacticVal = "coastal"
    /\ lat = 0
    /\ value = 5 * Unit
    /\ timeInc = 24
    /\ result = 4 * Unit
    /\ ResultAt(48) < result

\* C6: a raw value <= 0 gives 0, for every tactic id (known or not), every
\* point and every elapsed time.
C6_NonPositiveGivesZero ==
    (call # "none" /\ value <= 0) => result = 0

\* C7: both catalogs hold exactly the twelve table entries, in order, each
\* with the table's kind, rate and predicate, and agree entry for entry.
C7_CatalogIsTable ==
    /\ Len(tactics) = 12
    /\ Len(tacticsSim) = 12
    /\ \A i \in 1..12 :
         /\ tactics[i].value = CatalogIds[i]
         /\ tactics[i] = tacticsSim[i]
    /\ tacticVal \in TacticIds =>
         LET a == FindTactic(tactics, tacticVal)
             b == FindTactic(tacticsSim, tacticVal)
         IN /\ a.type = TableKind(tacticVal) /\ b.type = a.type
            /\ a.rate = TableRate(tacticVal) /\ b.rate = a.rate
            /\ \A p \in Coord :
                 /\ a.applies[p] = TableApplies(tacticVal, p[1], p[2])
                 /\ b.applies[p] = a.applies[p]

C7_Witness ==
    /\ call = "applyMitigation"
    /\ tacticVal = "wastemanagement"
    /\ lat = 45
    /\ lon = 45
    /\ value = 5 * Unit
    /\ result = 3 * Unit

\* A cell that reads as a number other than the sentinel.
ValidCell(c) == LET x == ParseFloat(c) IN ~x.nan /\ x.n # -9999

\* C8: whichever loader ran, no kept row has a latitude, longitude or
\* concentration cell that is the sentinel -9999 or not a number.
C8_NoSentinelKept ==
    loader # "none" =>
        \A j \in 1..Len(cleaned) :
            /\ ValidCell(cleaned[j].lat)
            /\ ValidCell(cleaned[j].lon)
            /\ ValidCell(cleaned[j].pieces)

\* C9: whichever loader ran, every kept row has its latitude in [-90, 90]
\* and its longitude in [-180, 180].
C9_CoordinatesInRange ==
    loader # "none" =>
        \A j \in 1..Len(cleaned) :
            LET la == ParseFloat(cleaned[j].lat)
                lo == ParseFloat(cleaned[j].lon)
            IN /\ ~la.nan /\ -90 <= la.n /\ la.n <= 90
               /\ ~lo.nan /\ -180 <= lo.n /\ lo.n <= 180

\* The year cell is absent or empty.
YearMissing(r) == r.year = Undefined \/ r.year = <<>>

\* The other three cells of the row are acceptable to parseCsv.
OtherCellsValid(r) ==
    ValidCell(r.lat) /\ ValidCell(r.lon) /\ ValidCell(r.pieces)

\* C10: parseCsv keeps a row with a missing or empty year (its other cells
\* being valid) and gives it the year 2025; it rejects a row whose year is
\* present and does not parse as a number; every kept row has a numeric year.
C10_DefaultYear ==
    loader = "parseCsv" =>
        /\ \A i \in 1..Len(csvRows) :
             LET r == csvRows[i] IN
             /\ (YearMissing(r) /\ OtherCellsValid(r)) =>
                  \E j \in 1..Len(cleaned) :
                      cleaned[j] = [r EXCEPT !.year = <<"2", "0", "2", "5">>]
             /\ (~YearMissing(r) /\ ParseFloat(r.year).nan) =>
                  \A j \in 1..Len(cleaned) : cleaned[j].year # r.year
        /\ \A j \in 1..Len(cleaned) : ~ParseFloat(cleaned[j].year).nan
        /\ Len(cleaned) =
             Cardinality({i \in 1..Len(csvRows) :
                 /\ OtherCellsValid(csvRows[i])
                 /\ YearMissing(csvRows[i]) \/ ~ParseFloat(csvRows[i].year).nan})

C10_Witness ==
    /\ loader = "parseCsv"
    /\ Len(csvRows) = 2
    /\ csvRows[1] = [BaseRow EXCEPT !.year = Undefined]
    /\ csvRows[2] = [BaseRow EXCEPT !.year = <<"a", "b", "c">>]
    /\ cleaned = <<[BaseRow EXCEPT !.year = <<"2", "0", "2", "5">>]>>

-----------------------------------------------------------------------------
\* Properties of the grid sampler.

\* The points floor(min), floor(min) + step, ... that lie in the closed
\* range [floor(min), ceil(max)], as a set.
AxisSet(lo, hi) ==
    {p \in FloorDeg(lo)..CeilDeg(hi) : (p - FloorDeg(lo)) % step = 0}

\* The j-th such point, counting from 1, and how many there are.
AxisPoint(lo, j) == FloorDeg(lo) + (j - 1) * step

AxisCount(lo, hi) == ((CeilDeg(hi) - FloorDeg(lo)) \div step) + 1

\* The (lat, lon) pairs of a published heatmap.
PointsOf(data) == {<<data[k].lat, data[k].lon>> : k \in 1..Len(data)}

\* The box of the spec's example: {minLat:0, maxLat:20, minLon:0, maxLon:20}.
ExampleBox == [minLat |-> 0, maxLat |-> 40, minLon |-> 0, maxLon |-> 40,
               minYear |-> defaultYear, maxYear |-> defaultYear]

\* C11: per axis the sampler produces exactly the points floor(min),
\* floor(min) + step, ... of the closed range [floor(min), ceil(max)] (the
\* upper end included when the stepping reaches it), the grid is the full
\* cross product of the two axes without repetition, and the example box
\* gives exactly the nine points (0,0) ... (20,20).
C11_GridCoversBox ==
    \A i \in Inst :
        LET box == comp[i].boundingBox
            data == comp[i].heatmapData
            lats == latPoints(box)
            lons == lonPoints(box)
        IN box # NoBox =>
            /\ {lats[j] : j \in 1..Len(lats)} = AxisSet(box.minLat, box.maxLat)
            /\ {lons[j] : j \in 1..Len(lons)} = AxisSet(box.minLon, box.maxLon)
            /\ lats[1] = FloorDeg(box.minLat)
            /\ lons[1] = FloorDeg(box.minLon)
            /\ data # <<>> =>
                 /\ PointsOf(data) = AxisSet(box.minLat, box.maxLat)
                                     \X AxisSet(box.minLon, box.maxLon)
                 /\ Len(data) = Cardinality(PointsOf(data))
            /\ (box = ExampleBox /\ data # <<>>) =>
                 PointsOf(data) = {0, 10, 20} \X {0, 10, 20}

C11_Witness ==
    /\ comp[1].boundingBox = ExampleBox
    /\ Len(comp[1].heatmapData) = 9
    /\ <<20, 20>> \in PointsOf(comp[1].heatmapData)
    /\ <<0, 10>> \in PointsOf(comp[1].heatmapData)

\* C12: a bounding box that is degenerate on an axis (min = max, whole or
\* fractional) gives exactly one point on that axis, floor(min), at the
\* sampler's step.
C12_DegenerateAxis ==
    \A i \in Inst :
        LET box == comp[i].boundingBox
            data == comp[i].heatmapData
        IN box # NoBox =>
            /\ box.minLat = box.maxLat =>
                 /\ latPoints(box) = <<FloorDeg(box.minLat)>>
                 /\ \A k \in 1..Len(data) : data[k].lat = FloorDeg(box.minLat)
            /\ box.minLon = box.maxLon =>
                 /\ lonPoints(box) = <<FloorDeg(box.minLon)>>
                 /\ \A k \in 1..Len(data) : data[k].lon = FloorDeg(box.minLon)
            /\ (box.minLat = box.maxLat /\ box.minLon = box.maxLon
                  /\ comp[i].deps = CurrentDeps(comp[i])
                  /\ inFlight = <<>> /\ comp[i].model.features = 3) =>
                 Len(data) = 1

C12_Witness ==
    /\ comp[1].boundingBox.minLat = 1
    /\ comp[1].boundingBox.maxLat = 1
    /\ comp[1].boundingBox.minLon = 40
    /\ comp[1].boundingBox.maxLon = 40
    /\ Len(comp[1].heatmapData) = 1
    /\ comp[1].heatmapData[1].lat = 0
    /\ comp[1].heatmapData[1].lon = 20

\* C13: the published sequence is longitude-major, latitude-minor, both
\* ascending: its k-th element is the point the order fixes for k from the
\* bounding box alone (so every call on the same box gives the same ordered
\* sequence), and its value is the adjusted prediction of that same point.
C13_LongitudeMajorOrder ==
    \A i \in Inst :
        LET box == comp[i].boundingBox
            data == comp[i].heatmapData
            nLat == AxisCount(box.minLat, box.maxLat)
            nLon == AxisCount(box.minLon, box.maxLon)
            ty == TargetYear(comp[i].selectedYear, 0)
        IN data # <<>> =>
            /\ Len(data) = nLat * nLon
            /\ \A k \in 1..Len(data) :
                 /\ data[k].lat = AxisPoint(box.minLat, ((k - 1) % nLat) + 1)
                 /\ data[k].lon = AxisPoint(box.minLon, ((k - 1) \div nLat) + 1)
            /\ \E t \in GridTactics : \A k \in 1..Len(data) :
                 data[k].predVal =
                     applyMitigationStrategy(
                         Forward(comp[i].model.weights,
                                 <<data[k].lat, data[k].lon, ty>>),
                         t, data[k].lat, data[k].lon, 0)

C13_Witness ==
    /\ comp[1].boundingBox = ExampleBox
    /\ comp[1].tactic = "coastal"
    /\ comp[1].deps = CurrentDeps(comp[1])
    /\ inFlight = <<>>
    /\ Len(comp[1].heatmapData) = 9
    /\ comp[1].heatmapData[2].lat = 10
    /\ comp[1].heatmapData[2].lon = 0
    /\ comp[1].heatmapData[4].lat = 0
    /\ comp[1].heatmapData[4].lon = 10

-----------------------------------------------------------------------------
\* Properties of the model lifecycle.

\* C14: no instance ever holds, as its current model, a model whose input
\* width differs from the width the component feeds to predict.
C14_IncompatibleNeverUsed ==
    \A i \in Inst :
        comp[i].model # NoModel =>
            comp[i].model.features = InputShape(comp[i].kind)

\* The load of instance i is over and gave it no model: the instance is in
\* the catch branch of its load, or it is on screen and past the load with
\* its model still null.
LoadGaveNoModel(i) ==
    \/ comp[i].pc \in {"removing", "parsingTrain"}
    \/ /\ comp[i].pc = "parsingLoad"
       /\ page = i
       /\ comp[i].model = NoModel

\* The load of instance i failed (an unknown key, or any other reason) and
\* the CSV has a valid row.
CacheMiss(i) ==
    /\ LoadGaveNoModel(i)
    /\ CleanedRows(comp[i].kind) # <<>>

\* Instance i has trained a model, saved it under its key, and (while the
\* instance is on screen) set it as its current model.
Retrained(i) ==
    LET saved == store[ModelUrl(comp[i].kind)]
    IN /\ saved.by = i
       /\ saved.trained
       /\ page = i => comp[i].model = saved

\* C15: a failed load is a cache miss: when the CSV has a valid row and
\* nothing else fails, the instance goes on to train, and reaches the state
\* where its new model is stored under the same key and is its model.
C15_CacheMissRetrains == \A i \in Inst : CacheMiss(i) ~> Retrained(i)

C15_Witness ==
    /\ comp[1].kind = "AIPredictions"
    /\ comp[1].pc = "ready"
    /\ comp[1].model.by = 1
    /\ comp[2].kind = "AIPredictions"
    /\ page = 2
    /\ store[PlainUrl].by = 2
    /\ comp[2].model = store[PlainUrl]
    /\ comp[2].pc = "ready"

\* C16: of each component at most one training run (a fit that has not
\* returned) is in flight at any time.
C16_OneTrainingInFlight ==
    \A kind \in Components :
        Cardinality({i \in Inst : comp[i].kind = kind
                                  /\ comp[i].pc = "fitting"}) <= 1

\* C19: every stored model, and every model set as a component's current
\* model, comes from a training run that completed.
C19_OnlyCompletedRunsSaved ==
    /\ \A u \in Urls : store[u] # NoModel => store[u].trained
    /\ \A i \in Inst : comp[i].model # NoModel => comp[i].model.trained

\* The suspended prediction passes of instance i.
RunsOf(i) == {k \in 1..Len(inFlight) : inFlight[k].inst = i}

\* C17: no inference before a model exists: every prediction pass in flight
\* was started with a model, a bounding box and a year; an instance without
\* a model has published no heatmap and no single-point prediction, is not
\* predicting, and has had no prediction fail.
C17_NoInferenceBeforeModel ==
    /\ \A k \in 1..Len(inFlight) :
          /\ inFlight[k].mlModel # NoModel
          /\ inFlight[k].box # NoBox
          /\ inFlight[k].year # NoYear
    /\ \A i \in Inst :
          comp[i].model = NoModel =>
             /\ comp[i].heatmapData = <<>>
             /\ comp[i].predictionOutput = NoOutput
             /\ ~comp[i].isPredicting
             /\ ~comp[i].predictionError
             /\ RunsOf(i) = {}

\* A heatmap whose training failed has a bounding box and a year but no
\* model; its prediction effect has run for these values and returned.
C17_Witness ==
    \E i \in Inst :
        /\ comp[i].kind = "AIYearHeatmapMitigation"
        /\ page = i
        /\ comp[i].model = NoModel
        /\ comp[i].boundingBox # NoBox
        /\ comp[i].selectedYear # NoYear
        /\ comp[i].deps = CurrentDeps(comp[i])

\* What a prediction pass over the current selection of c publishes.
CurrentPreds(i) ==
    RunPreds([inst |-> i, mlModel |-> comp[i].model,
              box |-> comp[i].boundingBox, year |-> comp[i].selectedYear,
              timeInc |-> comp[i].timeIncrement,
              tacticVal |-> comp[i].tactic])

\* C18: once no prediction pass of the view on screen is in flight, its
\* effect has run for the current selection and no pass has ended in an
\* error since, the published heatmap and its maximum are those of the
\* current selection.
C18_NoStaleHeatmap ==
    \A i \in Inst :
        (/\ page = i
         /\ comp[i].kind = "AIYearHeatmapMitigation"
         /\ PredictionGuard(comp[i])
         /\ comp[i].deps = CurrentDeps(comp[i])
         /\ ~comp[i].predictionError
         /\ RunsOf(i) = {})
        => /\ comp[i].heatmapData = CurrentPreds(i)
           /\ comp[i].maxVal = TempMax(CurrentPreds(i), 0)

\* C20: the time-lapse timer does not leak: when the view is not mounted, or
\* is mounted and stopped (its ref is null), no interval is active.
C20_NoTimerLeak ==
    /\ ~tlMounted => timers = {}
    /\ (tlMounted /\ intervalRef = 0) => timers = {}

\* C21: with no valid row after cleaning no training is started: the
\* instance is never fitting or saving, holds no new model, is not marked
\* as training, has no model of its own making and has saved none; once its
\* download has completed its status reports the missing data.
C21_NoDataNoTraining ==
    \A i \in Inst :
        (comp[i].pc # "unmounted" /\ CleanedRows(comp[i].kind) = <<>>) =>
           /\ comp[i].pc \in {"loading", "removing", "parsingTrain",
                              "parsingLoad", "noData", "csvError", "ready"}
           /\ comp[i].pc = "ready" => comp[i].kind = "AIPredictions"
           /\ comp[i].newModel = NoModel
           /\ ~comp[i].isTraining
           /\ comp[i].model # NoModel => comp[i].model.by # i
           /\ \A u \in Urls : store[u] # NoModel => store[u].by # i

\* A view on screen whose load failed and whose CSV had no valid row: it
\* shows the missing-data status and has no model.
C21_Witness ==
    \E i \in Inst :
        /\ page = i
        /\ comp[i].pc = "noData"
        /\ comp[i].model = NoModel
        /\ CleanedRows(comp[i].kind) = <<>>

\* A prediction pass of instance i is started in this step.
RunStarted(i) ==
    /\ Len(inFlight') = Len(inFlight) + 1
    /\ inFlight'[Len(inFlight')].inst = i

\* A prediction pass of instance i completes in this step and publishes.
RunPublished(i) ==
    /\ Len(inFlight') = Len(inFlight) - 1
    /\ page = i
    /\ \E k \in RunsOf(i) : inFlight' = Remove(inFlight, k)

\* C22: a prediction pass reports progress twice, in order: when it has
\* built its inputs and is suspended on the inference the bar is set (to
\* 0), and when the inference has completed the bar is set to 100; the bar
\* stays within 0..100 and goes down only when a new pass starts.
C22_ProgressCheckpoints ==
    [][\A i \in Inst :
         LET shown == comp[i].predictionProgress
             after == comp'[i].predictionProgress
         IN /\ after \in 0..100
            /\ RunStarted(i) => after = 0
            /\ RunPublished(i) => after = 100
            /\ after < shown => RunStarted(i)
            /\ after > shown => RunPublished(i)]_vars

\* A pass has completed and reported 100 while another, started after a
\* change of the selection, is still suspended.
C22_Witness ==
    \E i \in Inst :
        /\ comp[i].predictionProgress = 100
        /\ comp[i].heatmapData # <<>>
        /\ RunsOf(i) # {}

\* The adjusted values of the published points of instance i.
PublishedValues(i) ==
    {comp[i].heatmapData[k].predVal : k \in 1..Len(comp[i].heatmapData)}

MaxOf(S) == CHOOSE m \in S : \A x \in S : x <= m

\* C23: the published maximum is the largest adjusted value among the
\* published points when one of them is positive, and 0 otherwise: maxVal
\* and heatmapData always come from the same pass.
C23_MaxBelongsToResult ==
    \A i \in Inst :
        LET positive == {v \in PublishedValues(i) : v > 0}
        IN comp[i].maxVal = IF positive = {} THEN 0 ELSE MaxOf(positive)

\* A published result with positive and non-positive values whose largest
\* value is not at the last point, while a later pass is in flight.
C23_Witness ==
    \E i \in Inst :
        LET data == comp[i].heatmapData
        IN /\ Len(data) >= 2
           /\ comp[i].maxVal > 0
           /\ data[Len(data)].predVal < comp[i].maxVal
           /\ \E k \in 1..Len(data) : data[k].predVal <= 0
           /\ RunsOf(i) # {}

\* C24: no marker is rendered for a published point whose adjusted value is
\* zero or negative, every other point has its marker, and the tracked
\* maximum is 0 or the value of a marker.
C24_NonPositiveDiscarded ==
    \A i \in Inst :
        LET data == comp[i].heatmapData
            shown == Markers(data)
        IN /\ \A k \in 1..Len(shown) : shown[k].predVal > 0
           /\ Len(shown) = Cardinality({k \in 1..Len(data) :
                                           data[k].predVal > 0})
           /\ comp[i].maxVal >= 0
           /\ comp[i].maxVal > 0 =>
                 \E k \in 1..Len(shown) : shown[k].predVal = comp[i].maxVal

\* A published result with a point of value zero, a point of negative value
\* and a point with a marker.
C24_Witness ==
    \E i \in Inst :
        LET data == comp[i].heatmapData
        IN /\ \E k \in 1..Len(data) : data[k].predVal = 0
           /\ \E k \in 1..Len(data) : data[k].predVal < 0
           /\ Markers(data) # <<>>

\* The latitudes, longitudes (half degrees) and years of the cleaned rows.
RowLats(rows) == {HalfDeg(rows[k].lat) : k \in 1..Len(rows)}
RowLons(rows) == {HalfDeg(rows[k].lon) : k \in 1..Len(rows)}
RowYears(rows) == {YearOf(rows[k].year) : k \in 1..Len(rows)}

MinOf(S) == CHOOSE m \in S : \A x \in S : m <= x

\* The min/max reductions over the cleaned rows.
Reductions(rows) ==
    [minLat |-> MinOf(RowLats(rows)), maxLat |-> MaxOf(RowLats(rows)),
     minLon |-> MinOf(RowLons(rows)), maxLon |-> MaxOf(RowLons(rows)),
     minYear |-> MinOf(RowYears(rows)), maxYear |-> MaxOf(RowYears(rows))]

\* Every latitude, longitude and year of the rows lies in -9999..9999.
WithinSeeds(rows) ==
    /\ \A x \in RowLats(rows) \cup RowLons(rows) :
          2 * (-9999) <= x /\ x <= 2 * 9999
    /\ \A y \in RowYears(rows) : -9999 <= y /\ y <= 9999

\* The heatmaps that have set their bounding box.
Boxed == {i \in Inst : IsHeatmap(comp[i].kind) /\ comp[i].boundingBox # NoBox}

RunFailed(i) ==
    /\ page = i
    /\ comp[i].kind = "AIYearHeatmapMitigation"
    /\ comp'[i].predictionError
    /\ \/ \E k \in RunsOf(i) : inFlight' = Remove(inFlight, k)
       \/ inFlight' = inFlight /\ comp'[i].deps # comp[i].deps

\* C26: a prediction pass that ends in an error leaves the error status,
\* leaves the published heatmap and its maximum as they were, and leaves
\* the predicting flag false.
C26_ErrorKeepsStaleResult ==
    [][\A i \in Inst :
         RunFailed(i) =>
            /\ comp'[i].heatmapData = comp[i].heatmapData
            /\ comp'[i].maxVal = comp[i].maxVal
            /\ ~comp'[i].isPredicting]_vars

\* A view that shows a heatmap published earlier together with the error
\* status of a later pass.
C26_Witness ==
    \E i \in Inst :
        /\ page = i
        /\ comp[i].predictionError
        /\ comp[i].heatmapData # <<>>
        /\ comp[i].maxVal > 0
        /\ ~comp[i].isPredicting

\* The instances of the current heatmap component.
Heatmaps == {i \in Inst : comp[i].kind = "AIYearHeatmapMitigation"}

\* The model of instance i becomes non-null in this step: it is the stored
\* model its load resolved with, or the trained model of its own run.
ModelSetProperly(i) ==
    \/ /\ comp[i].pc = "loading"
       /\ comp'[i].model = store[MODEL_URL]
       /\ comp'[i].model.trained
    \/ /\ comp[i].pc = "saving"
       /\ comp'[i].model = comp[i].newModel
       /\ comp'[i].model.trained
       /\ comp'[i].model.by = i

\* C27: in the heatmap a set training flag implies that the model is still
\* null; the model becomes non-null only by a resolved load or by the
\* completion of the instance's training run; a model once set is never
\* reset to null.
C27_ModelLifecycle ==
    /\ [](\A i \in Heatmaps : comp[i].isTraining => comp[i].model = NoModel)
    /\ [][\A i \in Heatmaps :
            /\ comp[i].model # NoModel => comp'[i].model = comp[i].model
            /\ (comp[i].model = NoModel /\ comp'[i].model # NoModel)
                  => ModelSetProperly(i)]_vars

\* A heatmap on screen that has trained: its flag is cleared and its model
\* is the one its run produced and saved.
C27_Witness ==
    \E i \in Heatmaps :
        /\ page = i
        /\ comp[i].pc = "ready"
        /\ ~comp[i].isTraining
        /\ comp[i].model # NoModel
        /\ comp[i].model.by = i
        /\ store[MODEL_URL] = comp[i].model

\* C28: in the view on screen the predicting flag is set exactly while one
\* of its prediction passes is in flight.
C28_PredictingIffInFlight ==
    \A i \in Inst :
        page = i => (comp[i].isPredicting <=> RunsOf(i) # {})

\* C29: while the time-lapse view stays on screen at most one interval is
\* active, and it is the one whose handle is stored (none when the handle
\* is null); a running timer is replaced by no other; the month stays in
\* 0..11 and changes only by a tick of the running timer, by one modulo 12.
C29_OneTimerPerView ==
    /\ [](/\ Cardinality(timers) <= 1
          /\ timers = IF intervalRef = 0 THEN {} ELSE {intervalRef}
          /\ monthIndex \in 0..11)
    /\ [][/\ (timers # {} /\ timers' # {}) => timers' = timers
          /\ monthIndex' # monthIndex =>
                /\ timers # {}
                /\ timers' = timers
                /\ monthIndex' = (monthIndex + 1) % 12]_vars

\* The playback has been stopped and started again, and the running timer
\* has brought the month to December.
C29_Witness ==
    /\ tlMounted
    /\ timerIds >= 2
    /\ timers = {intervalRef}
    /\ monthIndex = 11

\* C30: when the pin effect has run for the current flags, the graph on
\* display agrees with them: ungrouped, no node is pinned; grouped, the
\* nodes of the expanded country are free and every other node is pinned
\* to the centre of its country.
C30_GraphAgreesWithFlags ==
    pinDeps = <<groupedByCountry, expandedCountry>> =>
       \A k \in 1..Len(graphData.nodes) :
          LET n == graphData.nodes[k]
          IN IF ~groupedByCountry THEN n.pin = <<>>
             ELSE IF n.country = expandedCountry THEN n.pin = <<>>
             ELSE /\ n.pin # <<>>
                  /\ n.pin = countryCenters[n.country]

====
